---------------------------- MODULE Spec2Model ----------------------------
(***************************************************************************)
(* A model of txtzip (src/src/index.ts): binary detection, the traversal   *)
(* with its ignore / source-only / include / exclude filters, the tree     *)
(* text, the content formatter and the chunk assembler.                    *)
(*                                                                         *)
(* Strings are sequences of UTF-16 code units (naturals), as JavaScript    *)
(* strings are; file contents are sequences of bytes.  Paths are POSIX     *)
(* paths (path.sep = "/").                                                 *)
(***************************************************************************)
EXTENDS Integers, Sequences, FiniteSets, TLC

VARIABLES
    \* ---- binary detector (isBinaryFile applied to one buffer)
    contentBuffer,        \* the bytes handed to isBinaryFile
    binaryResult,         \* "pending", or what it returned: "binary" (true) | "text" (false)
    \* ---- traversal (getFilesRecursively)
    fsRoot,               \* the directory tree under the source folder
    gitignore,            \* the rules of the project's .gitignore, in file order
    includePatterns,      \* --include
    excludePatterns,      \* --exclude
    sourceOnly,           \* --source-only
    stack,                \* the recursion: one frame per open readdir loop
    files,                \* the result list built so far (relative paths)
    listed,               \* the directories readdir was called on, in call order
    tpc,                  \* "start" | "walk" | "done"
    \* ---- assembly (createTextArchive)
    allFiles,             \* the traversal's result, with each file's bytes
    maxChunkSize,         \* 0 = no bound
    prefixTree,           \* --prefix-tree
    stripEmptyLines,      \* --strip-empty-lines
    outputFilesContent,   \* the buffers; each a sequence of pieces
    currentChunkSize,
    currentFileIndex,     \* 0-based, as in the source
    isContinuingFile,
    currentFileName,
    fileLoop,             \* 1-based position of the for-loop over allFiles
    totalFileContent,     \* the formatted content of the file being emitted
    contentPointer,
    pc,                   \* "tree" | "file" | "chunk" | "done"
    \* ---- tree text (buildTree, renderTree)
    treePaths,            \* the paths handed to buildTree, in input order
    renderedLines,        \* what renderTree returned
    treePc,               \* "build" | "rendered"
    \* ---- the process (configuration, write phase, exit)
    configFile,           \* txtzip.json: "absent" | "valid" | "unreadable" | "unparseable"
    chunkSizeStr,         \* --chunkSize as given
    overwriteOutput,      \* --overwrite
    resolvedOutputFile,   \* the output path, as segments
    disk,                 \* the files at the output paths: path -> content
    preRunDisk,           \* disk as it was when the process started
    written,              \* the paths writeFile has written, in order
    writeIndex,           \* i of the write loop (0-based)
    stderr,               \* what console.error printed, in order
    stdout,               \* what console.log printed, in order
    exitCode,             \* the exit status, -1 while the process runs
    rpc                   \* where the process is

binVars    == <<contentBuffer, binaryResult>>
walkVars   == <<fsRoot, gitignore, includePatterns, excludePatterns, sourceOnly,
                stack, files, listed, tpc>>
chunkVars  == <<allFiles, maxChunkSize, prefixTree, stripEmptyLines,
                outputFilesContent, currentChunkSize, currentFileIndex,
                isContinuingFile, currentFileName, fileLoop, totalFileContent,
                contentPointer, pc>>
treeVars   == <<treePaths, renderedLines, treePc>>
runVars    == <<configFile, chunkSizeStr, overwriteOutput, resolvedOutputFile,
                disk, preRunDisk, written, writeIndex, stderr, stdout,
                exitCode, rpc>>
vars       == <<binVars, walkVars, chunkVars, treeVars, runVars>>

(***************************************************************************)
(* Generic helpers on sequences and numbers.                               *)
(***************************************************************************)
Min(a, b) == IF a < b THEN a ELSE b
Max(a, b) == IF a > b THEN a ELSE b

\* The concatenation of the sequences ss[lo], ..., ss[hi].
RECURSIVE FlattenRange(_, _, _)
FlattenRange(ss, lo, hi) ==
    IF lo > hi THEN <<>>
    ELSE IF lo = hi THEN ss[lo]
    ELSE FlattenRange(ss, lo, (lo + hi) \div 2)
         \o FlattenRange(ss, (lo + hi) \div 2 + 1, hi)

Flatten(ss) == FlattenRange(ss, 1, Len(ss))

Range(s) == { s[i] : i \in 1..Len(s) }

\* s with every element for which keep is FALSE removed
RECURSIVE SelectIdx(_, _, _)
SelectIdx(s, keep, i) ==
    IF i > Len(s) THEN <<>>
    ELSE (IF keep[i] THEN <<s[i]>> ELSE <<>>) \o SelectIdx(s, keep, i + 1)

(***************************************************************************)
(* Binary detector.                                                        *)
(***************************************************************************)
\* A mutation of BinaryProbeLength: one byte more is looked at.
BinaryProbeLengthPlusOne == 24 + 1

\* The number of leading bytes isBinaryFile looks at.
BinaryProbeLength == 24

\* A mutation of IsBinaryCharCode: byte 0 counts as binary too.
IsBinaryCharCodeWithNul(charCode) ==
    \/ charCode < 9
    \/ (charCode > 13 /\ charCode < 32)
    \/ charCode = 127

\* The condition of the if inside isBinaryFile's loop.
IsBinaryCharCode(charCode) ==
    \/ (charCode > 0 /\ charCode < 9)
    \/ (charCode > 13 /\ charCode < 32)
    \/ charCode = 127

\* The loop of isBinaryFile from 0-based index i on.
RECURSIVE IsBinaryFrom(_, _)
IsBinaryFrom(buf, i) ==
    IF ~(i < BinaryProbeLength /\ i < Len(buf)) THEN FALSE
    ELSE IF IsBinaryCharCode(buf[i + 1]) THEN TRUE
    ELSE IsBinaryFrom(buf, i + 1)

isBinaryFile(buf) == IsBinaryFrom(buf, 0)

(***************************************************************************)
(* Strings: path, String and Buffer operations the program calls.          *)
(***************************************************************************)
\* str.split(sep) for a one-character separator: the pieces between the
\* separators (always at least one piece).
RECURSIVE SplitFrom(_, _, _, _)
SplitFrom(str, sep, i, cur) ==
    IF i > Len(str) THEN <<cur>>
    ELSE IF str[i] = sep THEN <<cur>> \o SplitFrom(str, sep, i + 1, <<>>)
    ELSE SplitFrom(str, sep, i + 1, Append(cur, str[i]))

Split(str, sep) == SplitFrom(str, sep, 1, <<>>)

\* parts.join(sep)
RECURSIVE Join(_, _)
Join(parts, sep) ==
    IF parts = <<>> THEN <<>>
    ELSE IF Len(parts) = 1 THEN parts[1]
    ELSE parts[1] \o sep \o Join(Tail(parts), sep)

\* path.relative(resolvedSourceFolder, file) of a file given by its segments
\* below the source folder.
RelativePath(segments) == Join(segments, <<47>>)

\* String.prototype.toLowerCase on one code unit (ASCII and Latin-1 letters).
LowerCodeUnit(c) ==
    IF (c >= 65 /\ c <= 90) \/ (c >= 192 /\ c <= 222 /\ c # 215) THEN c + 32 ELSE c

toLowerCase(str) == [i \in 1..Len(str) |-> LowerCodeUnit(str[i])]

\* path.extname(name): from the last "." of the base name on; "" when there
\* is none or when the only "." is the first character.
extname(name) ==
    LET base == Split(name, 47)[Len(Split(name, 47))]
        dots == { i \in 1..Len(base) : base[i] = 46 }
        last == CHOOSE i \in dots : \A j \in dots : j <= i
    IN  IF dots = {} \/ last = 1 THEN <<>> ELSE SubSeq(base, last, Len(base))

\* String.prototype.substr(start, length): a negative start counts from the
\* end of the string (not below 0), a length below 0 counts as 0.
substr(str, start, length) ==
    LET size     == Len(str)
        intStart == IF start < 0 THEN Max(size + start, 0) ELSE Min(start, size)
        intEnd   == Min(intStart + Max(length, 0), size)
    IN  SubSeq(str, intStart + 1, intEnd)

IsHighSurrogate(c) == c >= 55296 /\ c <= 56319
IsLowSurrogate(c)  == c >= 56320 /\ c <= 57343

\* The UTF-8 bytes code unit i of str stands for: 1, 2 or 3; a surrogate pair
\* is 4 bytes (counted at its first half), a surrogate without its partner
\* 3 (it is written as U+FFFD).
UnitBytes(str, i) ==
    IF str[i] < 128 THEN 1
    ELSE IF str[i] < 2048 THEN 2
    ELSE IF IsHighSurrogate(str[i]) /\ i < Len(str) /\ IsLowSurrogate(str[i + 1]) THEN 4
    ELSE IF IsLowSurrogate(str[i]) /\ i > 1 /\ IsHighSurrogate(str[i - 1]) THEN 0
    ELSE 3

RECURSIVE SumBytes(_, _, _)
SumBytes(str, lo, hi) ==
    IF lo > hi THEN 0
    ELSE IF lo = hi THEN UnitBytes(str, lo)
    ELSE SumBytes(str, lo, (lo + hi) \div 2) + SumBytes(str, (lo + hi) \div 2 + 1, hi)

\* Buffer.byteLength(str, 'utf8')
byteLength(str) == SumBytes(str, 1, Len(str))

\* Whether b[i+1..i+n] are UTF-8 continuation bytes.
Continuations(b, i, n) ==
    /\ i + n <= Len(b)
    /\ \A k \in 1..n : b[i + k] >= 128 /\ b[i + k] <= 191

\* The code units of one code point.
CodeUnits(cp) ==
    IF cp < 65536 THEN <<cp>>
    ELSE << 55296 + ((cp - 65536) \div 1024), 56320 + ((cp - 65536) % 1024) >>

\* contentBuffer.toString('utf8'): well-formed 1- to 4-byte sequences decode to
\* their code point, any other byte to U+FFFD.
RECURSIVE DecodeFrom(_, _)
DecodeFrom(b, i) ==
    IF i > Len(b) THEN <<>>
    ELSE IF b[i] < 128 THEN <<b[i]>> \o DecodeFrom(b, i + 1)
    ELSE IF b[i] >= 194 /\ b[i] <= 223 /\ Continuations(b, i, 1)
         THEN <<(b[i] - 192) * 64 + (b[i + 1] - 128)>> \o DecodeFrom(b, i + 2)
    ELSE IF b[i] >= 224 /\ b[i] <= 239 /\ Continuations(b, i, 2)
            /\ (b[i] - 224) * 4096 + (b[i + 1] - 128) * 64 + (b[i + 2] - 128) >= 2048
            /\ ~IsHighSurrogate((b[i] - 224) * 4096 + (b[i + 1] - 128) * 64 + (b[i + 2] - 128))
            /\ ~IsLowSurrogate((b[i] - 224) * 4096 + (b[i + 1] - 128) * 64 + (b[i + 2] - 128))
         THEN <<(b[i] - 224) * 4096 + (b[i + 1] - 128) * 64 + (b[i + 2] - 128)>>
              \o DecodeFrom(b, i + 3)
    ELSE IF b[i] >= 240 /\ b[i] <= 244 /\ Continuations(b, i, 3)
            /\ (b[i] - 240) * 262144 + (b[i + 1] - 128) * 4096
               + (b[i + 2] - 128) * 64 + (b[i + 3] - 128) \in 65536..1114111
         THEN CodeUnits((b[i] - 240) * 262144 + (b[i + 1] - 128) * 4096
                        + (b[i + 2] - 128) * 64 + (b[i + 3] - 128))
              \o DecodeFrom(b, i + 4)
    ELSE <<65533>> \o DecodeFrom(b, i + 1)

toStringUtf8(b) == DecodeFrom(b, 1)

\* String.prototype.trim() leaves the empty string: every code unit is white
\* space or a line terminator.
WhiteSpace ==
    {9, 10, 11, 12, 13, 32, 160, 5760, 8232, 8233, 8239, 8287, 12288, 65279}
        \cup (8192..8202)

TrimsToEmpty(line) == \A i \in 1..Len(line) : line[i] \in WhiteSpace

\* content.split('\n').filter(line => line.trim() !== '').join('\n')
StripEmpty(content) ==
    LET lines == Split(content, 10)
    IN  Join(SelectIdx(lines, [i \in 1..Len(lines) |-> ~TrimsToEmpty(lines[i])], 1),
             <<10>>)


(***************************************************************************)
(* The literal tables of the source.                                       *)
(***************************************************************************)
\* additionalIgnoredFiles, in the order of the source:
\* .DS_Store Thumbs.db desktop.ini txtzip.json txtzip.txt .vscode .idea .git .gitignore node_modules package-lock.json yarn.lock
additionalIgnoredFiles ==
    << <<46, 68, 83, 95, 83, 116, 111, 114, 101>>,
       <<84, 104, 117, 109, 98, 115, 46, 100, 98>>,
       <<100, 101, 115, 107, 116, 111, 112, 46, 105, 110, 105>>,
       <<116, 120, 116, 122, 105, 112, 46, 106, 115, 111, 110>>,
       <<116, 120, 116, 122, 105, 112, 46, 116, 120, 116>>,
       <<46, 118, 115, 99, 111, 100, 101>>,
       <<46, 105, 100, 101, 97>>,
       <<46, 103, 105, 116>>,
       <<46, 103, 105, 116, 105, 103, 110, 111, 114, 101>>,
       <<110, 111, 100, 101, 95, 109, 111, 100, 117, 108, 101, 115>>,
       <<112, 97, 99, 107, 97, 103, 101, 45, 108, 111, 99, 107, 46, 106, 115, 111, 110>>,
       <<121, 97, 114, 110, 46, 108, 111, 99, 107>> >>

\* sourceCodeExtensions:
\* .js .ts .jsx .tsx .py .java .c .cpp .h .hpp .cs .go
\* .rb .php .swift .kt .kts .rs .sh .bat .ps1 .pl .lua .sql
\* .scala .groovy .hs .erl .ex .exs .r .jl .f90 .f95 .f03 .clj
\* .cljc .cljs .coffee .dart .elm .fs .fsi .fsx .fsscript .gd .hbs .idr
\* .nim .ml .mli .mll .mly .purs .rkt .vb .vbs .vba .feature .s
\* .asm .sln .md .markdown .yml .yaml .json .xml .html .css .scss .less
\* .ini .conf .config .toml .tex .bib
sourceCodeExtensions ==
    { <<46, 106, 115>>,
      <<46, 116, 115>>,
      <<46, 106, 115, 120>>,
      <<46, 116, 115, 120>>,
      <<46, 112, 121>>,
      <<46, 106, 97, 118, 97>>,
      <<46, 99>>,
      <<46, 99, 112, 112>>,
      <<46, 104>>,
      <<46, 104, 112, 112>>,
      <<46, 99, 115>>,
      <<46, 103, 111>>,
      <<46, 114, 98>>,
      <<46, 112, 104, 112>>,
      <<46, 115, 119, 105, 102, 116>>,
      <<46, 107, 116>>,
      <<46, 107, 116, 115>>,
      <<46, 114, 115>>,
      <<46, 115, 104>>,
      <<46, 98, 97, 116>>,
      <<46, 112, 115, 49>>,
      <<46, 112, 108>>,
      <<46, 108, 117, 97>>,
      <<46, 115, 113, 108>>,
      <<46, 115, 99, 97, 108, 97>>,
      <<46, 103, 114, 111, 111, 118, 121>>,
      <<46, 104, 115>>,
      <<46, 101, 114, 108>>,
      <<46, 101, 120>>,
      <<46, 101, 120, 115>>,
      <<46, 114>>,
      <<46, 106, 108>>,
      <<46, 102, 57, 48>>,
      <<46, 102, 57, 53>>,
      <<46, 102, 48, 51>>,
      <<46, 99, 108, 106>>,
      <<46, 99, 108, 106, 99>>,
      <<46, 99, 108, 106, 115>>,
      <<46, 99, 111, 102, 102, 101, 101>>,
      <<46, 100, 97, 114, 116>>,
      <<46, 101, 108, 109>>,
      <<46, 102, 115>>,
      <<46, 102, 115, 105>>,
      <<46, 102, 115, 120>>,
      <<46, 102, 115, 115, 99, 114, 105, 112, 116>>,
      <<46, 103, 100>>,
      <<46, 104, 98, 115>>,
      <<46, 105, 100, 114>>,
      <<46, 110, 105, 109>>,
      <<46, 109, 108>>,
      <<46, 109, 108, 105>>,
      <<46, 109, 108, 108>>,
      <<46, 109, 108, 121>>,
      <<46, 112, 117, 114, 115>>,
      <<46, 114, 107, 116>>,
      <<46, 118, 98>>,
      <<46, 118, 98, 115>>,
      <<46, 118, 98, 97>>,
      <<46, 102, 101, 97, 116, 117, 114, 101>>,
      <<46, 115>>,
      <<46, 97, 115, 109>>,
      <<46, 115, 108, 110>>,
      <<46, 109, 100>>,
      <<46, 109, 97, 114, 107, 100, 111, 119, 110>>,
      <<46, 121, 109, 108>>,
      <<46, 121, 97, 109, 108>>,
      <<46, 106, 115, 111, 110>>,
      <<46, 120, 109, 108>>,
      <<46, 104, 116, 109, 108>>,
      <<46, 99, 115, 115>>,
      <<46, 115, 99, 115, 115>>,
      <<46, 108, 101, 115, 115>>,
      <<46, 105, 110, 105>>,
      <<46, 99, 111, 110, 102>>,
      <<46, 99, 111, 110, 102, 105, 103>>,
      <<46, 116, 111, 109, 108>>,
      <<46, 116, 101, 120>>,
      <<46, 98, 105, 98>> }

\* extensionMap of getLanguageFromExtension: extension :> language tag.
extensionMap ==
       (<<46, 106, 115>> :> <<106, 97, 118, 97, 115, 99, 114, 105, 112, 116>>)   \* .js -> javascript
    @@ (<<46, 116, 115>> :> <<116, 121, 112, 101, 115, 99, 114, 105, 112, 116>>)   \* .ts -> typescript
    @@ (<<46, 106, 115, 120>> :> <<106, 115, 120>>)   \* .jsx -> jsx
    @@ (<<46, 116, 115, 120>> :> <<116, 115, 120>>)   \* .tsx -> tsx
    @@ (<<46, 112, 121>> :> <<112, 121, 116, 104, 111, 110>>)   \* .py -> python
    @@ (<<46, 106, 97, 118, 97>> :> <<106, 97, 118, 97>>)   \* .java -> java
    @@ (<<46, 99>> :> <<99>>)   \* .c -> c
    @@ (<<46, 99, 112, 112>> :> <<99, 112, 112>>)   \* .cpp -> cpp
    @@ (<<46, 104>> :> <<99, 112, 112>>)   \* .h -> cpp
    @@ (<<46, 104, 112, 112>> :> <<99, 112, 112>>)   \* .hpp -> cpp
    @@ (<<46, 99, 115>> :> <<99, 115, 104, 97, 114, 112>>)   \* .cs -> csharp
    @@ (<<46, 103, 111>> :> <<103, 111>>)   \* .go -> go
    @@ (<<46, 114, 98>> :> <<114, 117, 98, 121>>)   \* .rb -> ruby
    @@ (<<46, 112, 104, 112>> :> <<112, 104, 112>>)   \* .php -> php
    @@ (<<46, 115, 119, 105, 102, 116>> :> <<115, 119, 105, 102, 116>>)   \* .swift -> swift
    @@ (<<46, 107, 116>> :> <<107, 111, 116, 108, 105, 110>>)   \* .kt -> kotlin
    @@ (<<46, 107, 116, 115>> :> <<107, 111, 116, 108, 105, 110>>)   \* .kts -> kotlin
    @@ (<<46, 114, 115>> :> <<114, 117, 115, 116>>)   \* .rs -> rust
    @@ (<<46, 115, 104>> :> <<98, 97, 115, 104>>)   \* .sh -> bash
    @@ (<<46, 98, 97, 116>> :> <<98, 97, 116>>)   \* .bat -> bat
    @@ (<<46, 112, 115, 49>> :> <<112, 111, 119, 101, 114, 115, 104, 101, 108, 108>>)   \* .ps1 -> powershell
    @@ (<<46, 112, 108>> :> <<112, 101, 114, 108>>)   \* .pl -> perl
    @@ (<<46, 108, 117, 97>> :> <<108, 117, 97>>)   \* .lua -> lua
    @@ (<<46, 115, 113, 108>> :> <<115, 113, 108>>)   \* .sql -> sql
    @@ (<<46, 115, 99, 97, 108, 97>> :> <<115, 99, 97, 108, 97>>)   \* .scala -> scala
    @@ (<<46, 103, 114, 111, 111, 118, 121>> :> <<103, 114, 111, 111, 118, 121>>)   \* .groovy -> groovy
    @@ (<<46, 104, 115>> :> <<104, 97, 115, 107, 101, 108, 108>>)   \* .hs -> haskell
    @@ (<<46, 101, 114, 108>> :> <<101, 114, 108, 97, 110, 103>>)   \* .erl -> erlang
    @@ (<<46, 101, 120>> :> <<101, 108, 105, 120, 105, 114>>)   \* .ex -> elixir
    @@ (<<46, 101, 120, 115>> :> <<101, 108, 105, 120, 105, 114>>)   \* .exs -> elixir
    @@ (<<46, 114>> :> <<114>>)   \* .r -> r
    @@ (<<46, 106, 108>> :> <<106, 117, 108, 105, 97>>)   \* .jl -> julia
    @@ (<<46, 102, 57, 48>> :> <<102, 111, 114, 116, 114, 97, 110>>)   \* .f90 -> fortran
    @@ (<<46, 102, 57, 53>> :> <<102, 111, 114, 116, 114, 97, 110>>)   \* .f95 -> fortran
    @@ (<<46, 102, 48, 51>> :> <<102, 111, 114, 116, 114, 97, 110>>)   \* .f03 -> fortran
    @@ (<<46, 99, 108, 106>> :> <<99, 108, 111, 106, 117, 114, 101>>)   \* .clj -> clojure
    @@ (<<46, 99, 108, 106, 99>> :> <<99, 108, 111, 106, 117, 114, 101>>)   \* .cljc -> clojure
    @@ (<<46, 99, 108, 106, 115>> :> <<99, 108, 111, 106, 117, 114, 101>>)   \* .cljs -> clojure
    @@ (<<46, 99, 111, 102, 102, 101, 101>> :> <<99, 111, 102, 102, 101, 101, 115, 99, 114, 105, 112, 116>>)   \* .coffee -> coffeescript
    @@ (<<46, 100, 97, 114, 116>> :> <<100, 97, 114, 116>>)   \* .dart -> dart
    @@ (<<46, 101, 108, 109>> :> <<101, 108, 109>>)   \* .elm -> elm
    @@ (<<46, 102, 115>> :> <<102, 115, 104, 97, 114, 112>>)   \* .fs -> fsharp
    @@ (<<46, 102, 115, 105>> :> <<102, 115, 104, 97, 114, 112>>)   \* .fsi -> fsharp
    @@ (<<46, 102, 115, 120>> :> <<102, 115, 104, 97, 114, 112>>)   \* .fsx -> fsharp
    @@ (<<46, 103, 100>> :> <<103, 100, 115, 99, 114, 105, 112, 116>>)   \* .gd -> gdscript
    @@ (<<46, 104, 98, 115>> :> <<104, 97, 110, 100, 108, 101, 98, 97, 114, 115>>)   \* .hbs -> handlebars
    @@ (<<46, 105, 100, 114>> :> <<105, 100, 114, 105, 115>>)   \* .idr -> idris
    @@ (<<46, 110, 105, 109>> :> <<110, 105, 109>>)   \* .nim -> nim
    @@ (<<46, 109, 108>> :> <<111, 99, 97, 109, 108>>)   \* .ml -> ocaml
    @@ (<<46, 109, 108, 105>> :> <<111, 99, 97, 109, 108>>)   \* .mli -> ocaml
    @@ (<<46, 109, 108, 108>> :> <<111, 99, 97, 109, 108>>)   \* .mll -> ocaml
    @@ (<<46, 109, 108, 121>> :> <<111, 99, 97, 109, 108>>)   \* .mly -> ocaml
    @@ (<<46, 112, 117, 114, 115>> :> <<112, 117, 114, 101, 115, 99, 114, 105, 112, 116>>)   \* .purs -> purescript
    @@ (<<46, 114, 107, 116>> :> <<114, 97, 99, 107, 101, 116>>)   \* .rkt -> racket
    @@ (<<46, 118, 98>> :> <<118, 98, 46, 110, 101, 116>>)   \* .vb -> vb.net
    @@ (<<46, 118, 98, 115>> :> <<118, 98, 115, 99, 114, 105, 112, 116>>)   \* .vbs -> vbscript
    @@ (<<46, 118, 98, 97>> :> <<118, 98, 97>>)   \* .vba -> vba
    @@ (<<46, 102, 101, 97, 116, 117, 114, 101>> :> <<103, 104, 101, 114, 107, 105, 110>>)   \* .feature -> gherkin
    @@ (<<46, 115>> :> <<97, 115, 115, 101, 109, 98, 108, 121>>)   \* .s -> assembly
    @@ (<<46, 97, 115, 109>> :> <<97, 115, 115, 101, 109, 98, 108, 121>>)   \* .asm -> assembly
    @@ (<<46, 115, 108, 110>> :> <<120, 109, 108>>)   \* .sln -> xml
    @@ (<<46, 109, 100>> :> <<109, 97, 114, 107, 100, 111, 119, 110>>)   \* .md -> markdown
    @@ (<<46, 109, 97, 114, 107, 100, 111, 119, 110>> :> <<109, 97, 114, 107, 100, 111, 119, 110>>)   \* .markdown -> markdown
    @@ (<<46, 121, 109, 108>> :> <<121, 97, 109, 108>>)   \* .yml -> yaml
    @@ (<<46, 121, 97, 109, 108>> :> <<121, 97, 109, 108>>)   \* .yaml -> yaml
    @@ (<<46, 106, 115, 111, 110>> :> <<106, 115, 111, 110>>)   \* .json -> json
    @@ (<<46, 120, 109, 108>> :> <<120, 109, 108>>)   \* .xml -> xml
    @@ (<<46, 104, 116, 109, 108>> :> <<104, 116, 109, 108>>)   \* .html -> html
    @@ (<<46, 99, 115, 115>> :> <<99, 115, 115>>)   \* .css -> css
    @@ (<<46, 115, 99, 115, 115>> :> <<115, 99, 115, 115>>)   \* .scss -> scss
    @@ (<<46, 108, 101, 115, 115>> :> <<108, 101, 115, 115>>)   \* .less -> less
    @@ (<<46, 105, 110, 105>> :> <<105, 110, 105>>)   \* .ini -> ini
    @@ (<<46, 99, 111, 110, 102>> :> <<>>)   \* .conf -> ''
    @@ (<<46, 99, 111, 110, 102, 105, 103>> :> <<>>)   \* .config -> ''
    @@ (<<46, 116, 111, 109, 108>> :> <<116, 111, 109, 108>>)   \* .toml -> toml
    @@ (<<46, 116, 101, 120>> :> <<108, 97, 116, 101, 120>>)   \* .tex -> latex
    @@ (<<46, 98, 105, 98>> :> <<98, 105, 98, 116, 101, 120>>)   \* .bib -> bibtex
    @@ (<<46, 116, 120, 116>> :> <<>>)   \* .txt -> ''

(***************************************************************************)
(* Content formatter (createTextArchive, per file).                        *)
(***************************************************************************)
\* getLanguageFromExtension(ext): extensionMap[ext.toLowerCase()] || ''
getLanguageFromExtension(ext) ==
    IF toLowerCase(ext) \in DOMAIN extensionMap
    THEN extensionMap[toLowerCase(ext)] ELSE <<>>

\* `\n## File: ${relativePath}\n\n`
FileHeader(relativePath) ==
    <<10, 35, 35, 32, 70, 105, 108, 101, 58, 32>> \o relativePath \o <<10, 10>>

\* The decoded content, with the empty lines stripped when the flag is set.
FileText(bytes, strip) ==
    IF strip THEN StripEmpty(toStringUtf8(bytes)) ELSE toStringUtf8(bytes)

\* fileContent: Markdown as it is, anything else in a fenced code block.
FileContent(relativePath, content) ==
    LET ext == toLowerCase(extname(relativePath))
    IN  IF ext = <<46, 109, 100>> \/ ext = <<46, 109, 97, 114, 107, 100, 111, 119, 110>>
        THEN content \o <<10>>
        ELSE <<96, 96, 96>> \o getLanguageFromExtension(ext) \o <<10>>
             \o content \o <<10, 96, 96, 96, 10>>

\* totalFileContent = fileHeader + fileContent of one file of allFiles.
FormatFile(f, strip) ==
    FileHeader(RelativePath(f.path))
        \o FileContent(RelativePath(f.path), FileText(f.bytes, strip))

(***************************************************************************)
(* Tree builder and renderer.                                              *)
(***************************************************************************)
\* Position of a code unit in the collation order of String.localeCompare
\* (ICU root collation): punctuation, then digits, then letters without
\* regard to case; other code units after them, by value.
PunctuationOrder ==
    <<32, 95, 45, 44, 59, 58, 33, 63, 46, 39, 34, 40, 41, 91, 93, 123, 125, 64,
      42, 47, 92, 38, 35, 37, 96, 94, 43, 60, 61, 62, 124, 126, 36>>

PrimaryWeight(c) ==
    IF c >= 48 /\ c <= 57 THEN 100 + (c - 48)
    ELSE IF (c >= 65 /\ c <= 90) \/ (c >= 97 /\ c <= 122)
         THEN 200 + (LowerCodeUnit(c) - 97)
    ELSE IF \E k \in 1..Len(PunctuationOrder) : PunctuationOrder[k] = c
         THEN CHOOSE k \in 1..Len(PunctuationOrder) : PunctuationOrder[k] = c
    ELSE 1000 + c

\* Lexicographic comparison of two sequences of weights from position i on:
\* -1, 0 or 1.
RECURSIVE CompareFrom(_, _, _)
CompareFrom(a, b, i) ==
    IF i > Len(a) /\ i > Len(b) THEN 0
    ELSE IF i > Len(a) THEN -1
    ELSE IF i > Len(b) THEN 1
    ELSE IF a[i] < b[i] THEN -1
    ELSE IF a[i] > b[i] THEN 1
    ELSE CompareFrom(a, b, i + 1)

\* Lower case sorts before upper case when the letters are the same.
CaseWeight(c) == IF c >= 65 /\ c <= 90 THEN 1 ELSE 0

\* The collation elements of a string: each character with the accent that
\* goes with it.  A precomposed letter counts as what it decomposes to
\* (U+00E9 as e and U+00C9 as E, each with U+0301), so canonically
\* equivalent strings have the same elements.
RECURSIVE CollationElements(_, _)
CollationElements(str, i) ==
    IF i > Len(str) THEN <<>>
    ELSE IF str[i] = 233 \/ str[i] = 201
         THEN <<[base |-> str[i] - 132, accent |-> 1]>> \o CollationElements(str, i + 1)
    ELSE IF i < Len(str) /\ str[i + 1] = 769
         THEN <<[base |-> str[i], accent |-> 1]>> \o CollationElements(str, i + 2)
    ELSE <<[base |-> str[i], accent |-> 0]>> \o CollationElements(str, i + 1)

\* a.localeCompare(b): by letters first, then by accents, then by case; 0
\* when the two strings have the same collation elements.
localeCompare(a, b) ==
    LET ea        == CollationElements(a, 1)
        eb        == CollationElements(b, 1)
        primary   == CompareFrom([i \in 1..Len(ea) |-> PrimaryWeight(ea[i].base)],
                                 [i \in 1..Len(eb) |-> PrimaryWeight(eb[i].base)], 1)
        secondary == CompareFrom([i \in 1..Len(ea) |-> ea[i].accent],
                                 [i \in 1..Len(eb) |-> eb[i].accent], 1)
    IN  IF primary # 0 THEN primary
        ELSE IF secondary # 0 THEN secondary
        ELSE CompareFrom([i \in 1..Len(ea) |-> CaseWeight(ea[i].base)],
                         [i \in 1..Len(eb) |-> CaseWeight(eb[i].base)], 1)

\* The comparator of both sorts: directories first, then by name.
CompareNodes(a, b) ==
    IF ~a.isFile /\ b.isFile THEN -1
    ELSE IF a.isFile /\ ~b.isFile THEN 1
    ELSE localeCompare(a.name, b.name)

\* Array.prototype.sort with CompareNodes (a stable sort).
RECURSIVE InsertSorted(_, _)
InsertSorted(sorted, x) ==
    IF sorted = <<>> THEN <<x>>
    ELSE IF CompareNodes(sorted[Len(sorted)], x) > 0
         THEN Append(InsertSorted(SubSeq(sorted, 1, Len(sorted) - 1), x),
                     sorted[Len(sorted)])
    ELSE Append(sorted, x)

RECURSIVE SortFrom(_, _, _)
SortFrom(children, i, sorted) ==
    IF i > Len(children) THEN sorted
    ELSE SortFrom(children, i + 1, InsertSorted(sorted, children[i]))

SortChildren(children) == SortFrom(children, 1, <<>>)

\* The inner loop of buildTree: parts[i..] inserted below node.
RECURSIVE InsertParts(_, _, _)
InsertParts(node, parts, i) ==
    IF i > Len(parts) THEN node
    ELSE
        LET found == { k \in 1..Len(node.children) : node.children[k].name = parts[i] }
            k     == CHOOSE k \in found : \A j \in found : k <= j
            fresh == [name |-> parts[i], children |-> <<>>, isFile |-> (i = Len(parts))]
        IN  IF found = {}
            THEN [node EXCEPT !.children =
                     Append(@, InsertParts(fresh, parts, i + 1))]
            ELSE [node EXCEPT !.children[k] = InsertParts(@, parts, i + 1)]

RECURSIVE BuildFrom(_, _, _)
BuildFrom(root, paths, n) ==
    IF n > Len(paths) THEN root
    ELSE BuildFrom(InsertParts(root, Split(paths[n], 47), 1), paths, n + 1)

buildTree(paths) ==
    BuildFrom([name |-> <<>>, children |-> <<>>, isFile |-> FALSE], paths, 1)

\* renderTree: the node's own line, then its sorted children's lines.
RECURSIVE renderTree(_, _, _, _)
RECURSIVE RenderChildren(_, _, _)
RenderChildren(children, newPrefix, index) ==
    IF index > Len(children) THEN <<>>
    ELSE renderTree(children[index], newPrefix, index = Len(children), FALSE)
         \o RenderChildren(children, newPrefix, index + 1)

renderTree(node, prefix, isLast, isRoot) ==
    LET connector == IF isRoot THEN <<>>
                     ELSE IF isLast THEN <<9492, 9472, 9472, 32>>
                     ELSE <<9500, 9472, 9472, 32>>
        own       == IF node.name # <<>>
                     THEN << prefix \o connector \o node.name
                             \o (IF node.isFile THEN <<>> ELSE <<47>>) >>
                     ELSE <<>>
        newPrefix == prefix \o (IF isRoot THEN <<>>
                                ELSE IF isLast THEN <<32, 32, 32, 32>>
                                ELSE <<9474, 32, 32, 32>>)
    IN  own \o RenderChildren(SortChildren(node.children), newPrefix, 1)

\* treeStringWithSpacing for the files of the traversal.
TreeString(fileList) ==
    LET relativePaths == [i \in 1..Len(fileList) |-> RelativePath(fileList[i].path)]
        tree          == buildTree(relativePaths)
        sortedRoot    == [tree EXCEPT !.children = SortChildren(@)]
        treeLines     == renderTree(sortedRoot, <<>>, TRUE, TRUE)
    IN  <<96, 96, 96, 112, 108, 97, 105, 110, 116, 101, 120, 116, 10>>
        \o Join(treeLines, <<10>>) \o <<10, 96, 96, 96, 10, 10>>


(***************************************************************************)
(* Specification SpecBin: isBinaryFile applied to one buffer.              *)
(***************************************************************************)
\* The longest buffer tried (longer than the probed prefix).
MaxBufferLen == 26

\* Byte values on both sides of every boundary of the three ranges.
ProbeBytes == {0, 1, 8, 9, 10, 11, 12, 13, 14, 31, 32, 126, 127, 128, 255}

\* Bytes the rest of a tried buffer is filled with: a letter, NUL, a high byte.
FillBytes == {65, 0, 200}

\* The buffers tried: len bytes of fill, one of them (if any) replaced.
BinInputs ==
    { [i \in 1..len |-> IF i = pos THEN b ELSE fill] :
        len \in 0..MaxBufferLen, pos \in 0..MaxBufferLen,
        b \in ProbeBytes, fill \in FillBytes }

\* The state of the parts of the program a specification does not run.
WalkIdle ==
    /\ fsRoot = <<>> /\ gitignore = <<>> /\ includePatterns = <<>>
    /\ excludePatterns = <<>> /\ sourceOnly = FALSE /\ stack = <<>>
    /\ files = <<>> /\ listed = <<>> /\ tpc = "idle"

ChunkIdle ==
    /\ allFiles = <<>> /\ maxChunkSize = 0 /\ prefixTree = FALSE
    /\ stripEmptyLines = FALSE /\ outputFilesContent = <<>>
    /\ currentChunkSize = 0 /\ currentFileIndex = 0
    /\ isContinuingFile = FALSE /\ currentFileName = <<>> /\ fileLoop = 0
    /\ totalFileContent = <<>> /\ contentPointer = 0 /\ pc = "idle"

BinIdle == contentBuffer = <<>> /\ binaryResult = "idle"

TreeIdle == treePaths = <<>> /\ renderedLines = <<>> /\ treePc = "idle"

RunIdle ==
    /\ configFile = "absent" /\ chunkSizeStr = <<>> /\ overwriteOutput = FALSE
    /\ resolvedOutputFile = <<>> /\ disk = <<>> /\ preRunDisk = <<>>
    /\ written = <<>>
    /\ writeIndex = 0 /\ stderr = <<>> /\ stdout = <<>> /\ exitCode = -1
    /\ rpc = "idle"

InitBin ==
    /\ contentBuffer \in BinInputs
    /\ binaryResult = "pending"
    /\ WalkIdle /\ ChunkIdle /\ TreeIdle /\ RunIdle

\* One call of isBinaryFile(contentBuffer).
Classify ==
    /\ binaryResult = "pending"
    /\ binaryResult' = (IF isBinaryFile(contentBuffer) THEN "binary" ELSE "text")
    /\ UNCHANGED <<contentBuffer, walkVars, chunkVars, treeVars, runVars>>

NextBin == Classify

SpecBin == InitBin /\ [][NextBin]_vars

\* C9: isBinaryFile returns true if and only if one of the first
\* min(24, length) bytes is in [1,8], in [14,31] or equals 127; so bytes 0,
\* 9..13 and >= 128 never make a buffer binary, bytes at index 24 or later
\* never matter, and the empty buffer is text.
C9_BinaryIffControlByteInPrefix ==
    binaryResult # "pending" =>
        (binaryResult = "binary") =
            (\E i \in 1..Min(24, Len(contentBuffer)) :
                contentBuffer[i] \in (1..8) \cup (14..31) \cup {127})

\* A buffer whose only control byte sits at 0-based index 24 was classified,
\* as text.
C9_Witness ==
    /\ binaryResult = "text"
    /\ Len(contentBuffer) = 26
    /\ contentBuffer[25] = 31
    /\ \A i \in 1..24 : contentBuffer[i] = 0

(***************************************************************************)
(* Chunk assembler (createTextArchive).                                    *)
(*                                                                         *)
(* A buffer of outputFilesContent is kept as the sequence of the pieces    *)
(* that were concatenated into it, so that what was inserted can be told   *)
(* from what came from a file: the tree text, a slice of a file's content, *)
(* a continuation header, a continuation footer.  The string the program   *)
(* holds is BufferString of it.                                            *)
(***************************************************************************)
TreePiece(text)        == [kind |-> "tree",   file |-> 0, s |-> text]
TextPiece(file, text)  == [kind |-> "text",   file |-> file, s |-> text]
\* A mutation of HeaderPiece: the header names no file.
HeaderPieceWithoutName(file, name) == [kind |-> "header", file |-> file, s |-> <<>>]
HeaderPiece(file, name) == [kind |-> "header", file |-> file, s |-> name]
FooterPiece(file)      == [kind |-> "footer", file |-> file, s |-> <<>>]

\* `\n## Continuation of File: ${currentFileName}\n\n`
ContinuationHeader(name) ==
    <<10, 35, 35, 32, 67, 111, 110, 116, 105, 110, 117, 97, 116, 105, 111, 110,
      32, 111, 102, 32, 70, 105, 108, 101, 58, 32>> \o name \o <<10, 10>>

\* `\n*File continues in next part*\n`
ContinuationFooter ==
    <<10, 42, 70, 105, 108, 101, 32, 99, 111, 110, 116, 105, 110, 117, 101, 115,
      32, 105, 110, 32, 110, 101, 120, 116, 32, 112, 97, 114, 116, 42, 10>>

PieceString(p) ==
    IF p.kind = "header" THEN ContinuationHeader(p.s)
    ELSE IF p.kind = "footer" THEN ContinuationFooter
    ELSE p.s

\* The string of a sequence of pieces.
BufferString(pieces) ==
    Flatten([i \in 1..Len(pieces) |-> PieceString(pieces[i])])

\* let remainingChunkSpace = maxChunkSize - currentChunkSize (bounded case)
RemainingChunkSpace(max, size) == max - size

\* A mutation of TreeOverflows: the tree is always taken to fit.
TreeOverflowsNever(max, size, treeSize) == FALSE

\* The tree does not fit into the current chunk (the if of the tree step).
TreeOverflows(max, size, treeSize) == max > 0 /\ size + treeSize > max

\* The condition under which the slice is shrunk.
SliceOverflows(max, size, sliceBytes) == max > 0 /\ size + sliceBytes > max

\* A mutation of ChunkIsFull: the bound is not asked to be set.
ChunkIsFullUnbounded(max, size) == size >= max

\* The chunk is full: a new one is started.
ChunkIsFull(max, size) == max > 0 /\ size >= max

\* A mutation of AppendToBuffer: the pieces go to the first buffer.
AppendToFirstBuffer(buffers, index, pieces) ==
    [buffers EXCEPT ![1] = @ \o pieces]

\* outputFilesContent[currentFileIndex] += contentSlice
AppendToBuffer(buffers, index, pieces) ==
    [buffers EXCEPT ![index + 1] = @ \o pieces]

\* The inner while loop: sliceLength-- while the slice's bytes exceed the
\* remaining space and sliceLength > 0.
RECURSIVE ShrinkSlice(_, _, _, _)
ShrinkSlice(content, pointer, space, sliceLength) ==
    IF byteLength(substr(content, pointer, sliceLength)) > space /\ sliceLength > 0
    THEN ShrinkSlice(content, pointer, space, sliceLength - 1)
    ELSE sliceLength

\* sliceLength as the loop body settles it before `contentPointer += sliceLength`.
SliceLength(content, pointer, max, size) ==
    LET remainingContentLength == Len(content) - pointer
        first == IF max > 0
                 THEN Min(RemainingChunkSpace(max, size), remainingContentLength)
                 ELSE remainingContentLength
    IN  IF SliceOverflows(max, size, byteLength(substr(content, pointer, first)))
        THEN ShrinkSlice(content, pointer, RemainingChunkSpace(max, size), first)
        ELSE first

(***************************************************************************)
(* Specification SpecChunk: the assembly of the buffers from a list of     *)
(* files the traversal returned.                                           *)
(***************************************************************************)
\* The files a run may meet: path segments below the source folder, bytes,
\* and whether stat() calls it a regular file.
\*   a        "h\n\ni"                      (no extension: fenced, no language)
\*   d/b.md   e-acute, euro sign, U+1F600   (2-, 3- and 4-byte characters)
\*   n.c      NUL "x"                       (a NUL byte, no other control byte)
\*   z        0x01 "A"                      (a byte in [1,8] at index 1)
\*   w        24 times "a", then 0x01       (printable up to index 23)
\*   l        "q", not a regular file
CandidateFiles ==
    { [path |-> << <<97>> >>, bytes |-> <<104, 10, 10, 105>>, isFile |-> TRUE],
      [path |-> << <<100>>, <<98, 46, 109, 100>> >>,
       bytes |-> <<195, 169, 226, 130, 172, 240, 159, 152, 128>>, isFile |-> TRUE],
      [path |-> << <<110, 46, 99>> >>, bytes |-> <<0, 120>>, isFile |-> TRUE],
      [path |-> << <<122>> >>, bytes |-> <<65, 1>>, isFile |-> TRUE],
      [path |-> << <<119>> >>, bytes |-> [k \in 1..25 |-> IF k = 25 THEN 1 ELSE 97],
       isFile |-> TRUE],
      [path |-> << <<108>> >>, bytes |-> <<113>>, isFile |-> FALSE] }

\* The longest list of files tried.
MaxFiles == 2

\* The lists of distinct files of at most MaxFiles entries.
FileLists ==
    UNION { { l \in [1..n -> CandidateFiles] :
                \A i, j \in 1..n : i # j => l[i] # l[j] } : n \in 0..MaxFiles }

\* The chunk bounds tried (0: none): below the width of a character, below
\* and at the size of a tree text, above the size of a whole run.
ChunkSizes == {0, 2, 5, 26, 30, 64}

\* The number of buffers at which the model stops a run whose chunk loop does
\* not come to an end (the runs that end make fewer: OnlyARepeatingLoopIsCutOff).
MaxBuffers == 72

InitChunk ==
    /\ allFiles \in FileLists
    /\ maxChunkSize \in ChunkSizes
    /\ prefixTree \in BOOLEAN
    /\ stripEmptyLines \in BOOLEAN
    /\ outputFilesContent = << <<>> >>
    /\ currentChunkSize = 0
    /\ currentFileIndex = 0
    /\ isContinuingFile = FALSE
    /\ currentFileName = <<>>
    /\ fileLoop = 1
    /\ totalFileContent = <<>>
    /\ contentPointer = 0
    /\ pc = "tree"
    /\ BinIdle /\ WalkIdle /\ TreeIdle /\ RunIdle

\* if (prefixTree) { ... }: the tree text goes in front of buffer 0, or, when
\* it does not fit, becomes a buffer of its own in front of it.
TreePrefix ==
    /\ pc = "tree"
    /\ pc' = "file"
    /\ IF prefixTree
       THEN LET text == TreeString(allFiles)
                treeStringSize == byteLength(text)
            IN  IF TreeOverflows(maxChunkSize, currentChunkSize, treeStringSize)
                THEN /\ outputFilesContent' = << <<TreePiece(text)>> >> \o outputFilesContent
                     /\ currentChunkSize' = treeStringSize
                     /\ currentFileIndex' = currentFileIndex + 1
                ELSE /\ outputFilesContent' =
                            [outputFilesContent EXCEPT ![1] = <<TreePiece(text)>> \o @]
                     /\ currentChunkSize' = currentChunkSize + treeStringSize
                     /\ UNCHANGED currentFileIndex
       ELSE UNCHANGED <<outputFilesContent, currentChunkSize, currentFileIndex>>
    /\ UNCHANGED <<allFiles, maxChunkSize, prefixTree, stripEmptyLines,
                   isContinuingFile, currentFileName, fileLoop, totalFileContent,
                   contentPointer, binVars, walkVars, treeVars, runVars>>

\* for (const file of allFiles): stat, read, the binary check and the
\* formatting of the next file; a file that is not regular or is binary is
\* passed over.
NextFile ==
    /\ pc = "file"
    /\ fileLoop <= Len(allFiles)
    /\ IF allFiles[fileLoop].isFile /\ ~isBinaryFile(allFiles[fileLoop].bytes)
       THEN /\ totalFileContent' = FormatFile(allFiles[fileLoop], stripEmptyLines)
            /\ contentPointer' = 0
            /\ pc' = "chunk"
            /\ UNCHANGED fileLoop
       ELSE /\ fileLoop' = fileLoop + 1
            /\ UNCHANGED <<totalFileContent, contentPointer, pc>>
    /\ UNCHANGED <<allFiles, maxChunkSize, prefixTree, stripEmptyLines,
                   outputFilesContent, currentChunkSize, currentFileIndex,
                   isContinuingFile, currentFileName, binVars, walkVars, treeVars, runVars>>

\* One iteration of while (contentPointer < totalFileContent.length).
ChunkIteration ==
    /\ pc = "chunk"
    /\ contentPointer < Len(totalFileContent)
    /\ Len(outputFilesContent) < MaxBuffers
    /\ LET relativePath == RelativePath(allFiles[fileLoop].path)
           sliceLength  == SliceLength(totalFileContent, contentPointer,
                                       maxChunkSize, currentChunkSize)
           slice        == substr(totalFileContent, contentPointer, sliceLength)
           pointer      == contentPointer + sliceLength
           pieces       ==
               (IF isContinuingFile
                THEN <<HeaderPiece(fileLoop, currentFileName)>> ELSE <<>>)
               \o (IF slice # <<>> THEN <<TextPiece(fileLoop, slice)>> ELSE <<>>)
               \o (IF pointer < Len(totalFileContent)
                   THEN <<FooterPiece(fileLoop)>> ELSE <<>>)
           size         == currentChunkSize + byteLength(BufferString(pieces))
           appended     == AppendToBuffer(outputFilesContent, currentFileIndex, pieces)
       IN  /\ contentPointer' = pointer
           /\ isContinuingFile' = (pointer < Len(totalFileContent))
           /\ currentFileName' = IF pointer < Len(totalFileContent)
                                 THEN relativePath ELSE currentFileName
           /\ IF ChunkIsFull(maxChunkSize, size)
              THEN /\ currentFileIndex' = currentFileIndex + 1
                   /\ outputFilesContent' = Append(appended, <<>>)
                   /\ currentChunkSize' = 0
              ELSE /\ outputFilesContent' = appended
                   /\ currentChunkSize' = size
                   /\ UNCHANGED currentFileIndex
    /\ UNCHANGED <<allFiles, maxChunkSize, prefixTree, stripEmptyLines, fileLoop,
                   totalFileContent, pc, binVars, walkVars, treeVars, runVars>>

\* The while loop ends: the for loop goes on to the next file.
FileEmitted ==
    /\ pc = "chunk"
    /\ ~(contentPointer < Len(totalFileContent))
    /\ fileLoop' = fileLoop + 1
    /\ pc' = "file"
    /\ UNCHANGED <<allFiles, maxChunkSize, prefixTree, stripEmptyLines,
                   outputFilesContent, currentChunkSize, currentFileIndex,
                   isContinuingFile, currentFileName, totalFileContent,
                   contentPointer, binVars, walkVars, treeVars, runVars>>

\* The for loop over allFiles ends: the buffers are assembled.
AssemblyDone ==
    /\ pc = "file"
    /\ fileLoop > Len(allFiles)
    /\ pc' = "done"
    /\ UNCHANGED <<allFiles, maxChunkSize, prefixTree, stripEmptyLines,
                   outputFilesContent, currentChunkSize, currentFileIndex,
                   isContinuingFile, currentFileName, fileLoop, totalFileContent,
                   contentPointer, binVars, walkVars, treeVars, runVars>>

NextChunk ==
    \/ TreePrefix
    \/ NextFile
    \/ ChunkIteration
    \/ FileEmitted
    \/ AssemblyDone

SpecChunk == InitChunk /\ [][NextChunk]_vars


(***************************************************************************)
(* Claims about the assembled buffers.                                     *)
(***************************************************************************)
\* All pieces of all buffers, in index order.
AllPieces == Flatten(outputFilesContent)

\* What is left of the buffers, concatenated in index order, when the tree
\* text and the continuation headers and footers are taken out.
EmittedText ==
    Flatten([k \in 1..Len(AllPieces) |->
                IF AllPieces[k].kind = "text" THEN AllPieces[k].s ELSE <<>>])

\* Whether file i of allFiles is emitted: a regular file that is not binary.
IsTextFile(i) == allFiles[i].isFile /\ ~isBinaryFile(allFiles[i].bytes)

\* The formatted contents (header + body) of the non-binary files, in
\* traversal order.
ExpectedText ==
    Flatten([i \in 1..Len(allFiles) |->
                IF IsTextFile(i) THEN FormatFile(allFiles[i], stripEmptyLines)
                ELSE <<>>])

\* The number of bytes buffer i is written with.
BufferBytes(i) == byteLength(BufferString(outputFilesContent[i]))

\* C1: for every list of files and every bound B > 0, tree prefix on or off,
\* the buffers concatenated in index order, without the tree text and the
\* continuation headers and footers, are exactly the formatted contents of
\* the non-binary files in traversal order.
C1_BuffersReconstructContent ==
    (pc = "done" /\ maxChunkSize > 0) => EmittedText = ExpectedText

\* The text pieces of buffer i, and the UTF-8 width of the last character of
\* the last of them (0 when the buffer holds no file content).
TextOf(i) ==
    Flatten([k \in 1..Len(outputFilesContent[i]) |->
                IF outputFilesContent[i][k].kind = "text"
                THEN outputFilesContent[i][k].s ELSE <<>>])

LastCharacterBytes(i) ==
    LET t == TextOf(i)
    IN  IF t = <<>> THEN 0
        ELSE IF Len(t) > 1 /\ IsLowSurrogate(t[Len(t)]) /\ IsHighSurrogate(t[Len(t) - 1])
             THEN 4
        ELSE byteLength(<<t[Len(t)]>>)

\* C2: while a bound B > 0 is active no buffer, headers and footers counted,
\* is longer than B bytes, unless it had to take one character wider than the
\* space that was left (without that character it is below B).
C2_BuffersWithinBound ==
    maxChunkSize > 0 =>
        \A i \in 1..Len(outputFilesContent) :
            \/ BufferBytes(i) <= maxChunkSize
            \/ /\ TextOf(i) # <<>>
               /\ BufferBytes(i) - LastCharacterBytes(i) < maxChunkSize

\* The pieces the single buffer holds when no bound is set: the tree text if
\* asked for, then each non-binary file's whole formatted content.
UnboundedPieces ==
    (IF prefixTree THEN <<TreePiece(TreeString(allFiles))>> ELSE <<>>)
    \o Flatten([i \in 1..Len(allFiles) |->
                   IF IsTextFile(i)
                   THEN <<TextPiece(i, FormatFile(allFiles[i], stripEmptyLines))>>
                   ELSE <<>>])

\* C3: with no bound (maxChunkSize = 0) there is exactly one buffer, it never
\* holds a continuation header or footer, and at the end it is the tree text
\* (if asked for) followed by each non-binary file's formatted content,
\* whole and in traversal order.
C3_UnboundedSingleBuffer ==
    maxChunkSize = 0 =>
        /\ Len(outputFilesContent) = 1
        /\ currentFileIndex = 0
        /\ \A k \in 1..Len(outputFilesContent[1]) :
              outputFilesContent[1][k].kind \notin {"header", "footer"}
        /\ pc = "done" => outputFilesContent[1] = UnboundedPieces

\* An unbounded run with the tree and two emitted files has ended.
C3_Witness ==
    /\ pc = "done" /\ maxChunkSize = 0 /\ prefixTree
    /\ Len(allFiles) = 2 /\ IsTextFile(1) /\ IsTextFile(2)
    /\ Len(outputFilesContent[1]) = 3

\* The pieces of the buffers that come from file i of allFiles (slices of its
\* content and the continuation markers set for it).
PiecesOf(i) == { k \in 1..Len(AllPieces) : AllPieces[k].file = i }

\* The first min(24, length) bytes of a file.
Prefix24(bytes) == SubSeq(bytes, 1, Min(24, Len(bytes)))

HasControlByte(bytes) ==
    \E k \in 1..Len(bytes) : bytes[k] \in (1..8) \cup (14..31) \cup {127}

\* C10 as stated: a file whose first 24 bytes contain 0x00 is classified
\* binary and contributes nothing to the output; a file whose first 24 bytes
\* are all printable ASCII is classified text (and emitted).
C10_NulPrefixIsBinary ==
    pc = "done" =>
        \A i \in 1..Len(allFiles) :
            /\ (0 \in Range(Prefix24(allFiles[i].bytes))) => PiecesOf(i) = {}
            /\ (allFiles[i].isFile /\ Range(Prefix24(allFiles[i].bytes)) \subseteq 32..126)
                  => PiecesOf(i) # {}

\* C10 as amended: a file whose first 24 bytes contain a byte in [1,8],
\* [14,31] or 127 is classified binary and no header, content or marker of
\* it reaches a buffer; a regular file with no such byte among them, be they
\* all printable ASCII or with a 0x00, is classified text and emitted.
C10_ControlPrefixIsBinary ==
    \A i \in 1..Len(allFiles) :
        /\ HasControlByte(Prefix24(allFiles[i].bytes)) => PiecesOf(i) = {}
        /\ (pc = "done" /\ allFiles[i].isFile
               /\ ~HasControlByte(Prefix24(allFiles[i].bytes)))
              => \E k \in PiecesOf(i) : AllPieces[k].kind = "text"

\* A run has ended that passed over a file with 0x01 among its first 24 bytes
\* and emitted one with a 0x00 there.
C10_Witness ==
    /\ pc = "done" /\ Len(allFiles) = 2
    /\ 1 \in Range(Prefix24(allFiles[1].bytes)) /\ PiecesOf(1) = {}
    /\ 0 \in Range(Prefix24(allFiles[2].bytes)) /\ PiecesOf(2) # {}


(***************************************************************************)
(* The filter engine: the rules of `ignore`, minimatch, and the traversal  *)
(* getFilesRecursively.  A path is a sequence of segments or, where the    *)
(* program passes a string, the segments joined by "/".                    *)
(***************************************************************************)
\* Whether the glob pat (characters, "*" and "?") matches the whole of str
\* from positions i and j on; neither holds a "/".
RECURSIVE GlobFrom(_, _, _, _)
GlobFrom(pat, str, i, j) ==
    IF i > Len(pat) THEN j > Len(str)
    ELSE IF pat[i] = 42
         THEN GlobFrom(pat, str, i + 1, j)
              \/ (j <= Len(str) /\ GlobFrom(pat, str, i, j + 1))
    ELSE /\ j <= Len(str)
         /\ (pat[i] = 63 \/ pat[i] = str[j])
         /\ GlobFrom(pat, str, i + 1, j + 1)

\* ---- the `ignore` package -------------------------------------------------
\* One pattern line as ignore().add() compiles it.  A leading "!" negates; a
\* trailing "/" makes the rule match directories only; a "/" at the beginning
\* or in the middle anchors the rule at the source folder, and without one
\* the pattern is matched against the last segment at any depth.
IgnoreRule(pattern) ==
    LET negative == Len(pattern) > 0 /\ pattern[1] = 33
        body     == IF negative THEN Tail(pattern) ELSE pattern
        dirOnly  == Len(body) > 0 /\ body[Len(body)] = 47
        core     == IF dirOnly THEN SubSeq(body, 1, Len(body) - 1) ELSE body
        leading  == Len(core) > 0 /\ core[1] = 47
    IN  [negative |-> negative,
         dirOnly  |-> dirOnly,
         anchored |-> 47 \in Range(core),
         segments |-> Split(IF leading THEN Tail(core) ELSE core, 47)]

\* rule.regex.test(path) for the path with the given segments, asked with a
\* trailing "/" (asDirectory) or without.  The regular expression ends in
\* "\/$" for a directory-only rule and in "(?=$|\/$)" otherwise, and is
\* compiled case-insensitive.
RuleMatches(rule, segments, asDirectory) ==
    /\ rule.dirOnly => asDirectory
    /\ IF rule.anchored
       THEN /\ Len(segments) = Len(rule.segments)
            /\ \A k \in 1..Len(segments) :
                  GlobFrom(toLowerCase(rule.segments[k]),
                           toLowerCase(segments[k]), 1, 1)
       ELSE GlobFrom(toLowerCase(rule.segments[1]),
                     toLowerCase(segments[Len(segments)]), 1, 1)

\* Ignore._testOne: the rules are tried in the order they were added and the
\* last one that matches decides.
RECURSIVE TestOneFrom(_, _, _, _, _)
TestOneFrom(rules, segments, asDirectory, k, ignored) ==
    IF k > Len(rules) THEN ignored
    ELSE TestOneFrom(rules, segments, asDirectory, k + 1,
                     IF RuleMatches(rules[k], segments, asDirectory)
                     THEN ~rules[k].negative ELSE ignored)

TestOne(rules, segments, asDirectory) ==
    TestOneFrom(rules, segments, asDirectory, 1, FALSE)

\* Ignore._t: a path below an ignored directory is ignored; the parent is
\* asked about first, as a directory.
RECURSIVE TestPath(_, _, _)
TestPath(rules, segments, asDirectory) ==
    IF Len(segments) > 1
       /\ TestPath(rules, SubSeq(segments, 1, Len(segments) - 1), TRUE)
    THEN TRUE
    ELSE TestOne(rules, segments, asDirectory)

\* ig.ignores(path): path is a string; it stands for a directory only when
\* it ends in "/".
ignores(rules, path) ==
    LET asDirectory == Len(path) > 0 /\ path[Len(path)] = 47
        bare        == IF asDirectory THEN SubSeq(path, 1, Len(path) - 1) ELSE path
    IN  TestPath(rules, Split(bare, 47), asDirectory)

\* The rule list with the static names in front of the rules of .gitignore.
loadIgnorePatternsStaticFirst(gitignoreLines) ==
    [k \in 1..Len(additionalIgnoredFiles) |-> IgnoreRule(additionalIgnoredFiles[k])]
    \o [k \in 1..Len(gitignoreLines) |-> IgnoreRule(gitignoreLines[k])]

\* loadIgnorePatterns: the rules of .gitignore (when the file exists), then
\* the static names.
loadIgnorePatterns(gitignoreLines) ==
    [k \in 1..Len(gitignoreLines) |-> IgnoreRule(gitignoreLines[k])]
    \o [k \in 1..Len(additionalIgnoredFiles) |-> IgnoreRule(additionalIgnoredFiles[k])]

\* ---- minimatch ------------------------------------------------------------
\* One pattern segment against one path segment: "*" and "?" do not match a
\* leading "." (option dot is off).
SegmentMatches(pat, segment) ==
    /\ (Len(segment) > 0 /\ segment[1] = 46) => (Len(pat) > 0 /\ pat[1] = 46)
    /\ GlobFrom(pat, segment, 1, 1)

IsDotSegment(segment) == Len(segment) > 0 /\ segment[1] = 46

\* Minimatch.matchOne: the segments of the path from fi on against the
\* segments of the pattern from pi on.  A "**" segment stands for any number
\* of segments that do not begin with "."; at the end of the pattern it
\* swallows the rest, of which there must be at least one segment.
RECURSIVE MatchOne(_, _, _, _)
MatchOne(file, pattern, fi, pi) ==
    IF pi > Len(pattern) THEN fi > Len(file)
    ELSE IF fi > Len(file) THEN FALSE
    ELSE IF pattern[pi] = <<42, 42>>
         THEN IF pi = Len(pattern)
              THEN \A k \in fi..Len(file) : ~IsDotSegment(file[k])
              ELSE \E fr \in fi..Len(file) :
                      /\ \A k \in fi..(fr - 1) : ~IsDotSegment(file[k])
                      /\ MatchOne(file, pattern, fr, pi + 1)
    ELSE /\ SegmentMatches(pattern[pi], file[fi])
         /\ MatchOne(file, pattern, fi + 1, pi + 1)

\* minimatch(p, pattern, { matchBase }): with matchBase, a pattern of one
\* segment is matched against the base name of p.
minimatch(p, pattern, matchBase) ==
    LET file == Split(p, 47)
        set  == Split(pattern, 47)
    IN  MatchOne(IF matchBase /\ Len(set) = 1 THEN <<file[Len(file)]>> ELSE file,
                 set, 1, 1)

\* ---- the per-file decision of getFilesRecursively -------------------------
isPatternRecursiveNever(pattern) == FALSE

isPatternRecursive(pattern) == 47 \notin Range(pattern) /\ 92 \notin Range(pattern)

\* if (sourceOnly) { ... }: the extension of the entry's name, lower-cased,
\* has to be in sourceCodeExtensions.
PassesSourceOnly(only, name) ==
    ~only \/ toLowerCase(extname(name)) \in sourceCodeExtensions

\* includeMatch after the loop over includePatterns
IncludeMatch(patterns, relativePath) ==
    \/ Len(patterns) = 0
    \/ \E k \in 1..Len(patterns) :
          minimatch(relativePath, patterns[k], isPatternRecursive(patterns[k]))

\* excludeMatch after the loop over excludePatterns
ExcludeMatch(patterns, relativePath) ==
    \E k \in 1..Len(patterns) : minimatch(relativePath, patterns[k], FALSE)

\* ---- the traversal --------------------------------------------------------
\* The source folder the runs start from: its entries, each with its path
\* below the folder; readdir returns the entries of a directory in the order
\* they stand here.
\*   .git/config  .gitignore  logo.PNG  x.test.js
\*   a/b/c/deep.ts  a/b/x.test.js  a/node_modules/m.ts  a/yarn.lock
\*   build/out.js  src/skip.ts  src/Main.TS  src/main.ts
SourceFolder ==
    << [path |-> << <<115, 114, 99>> >>,               isDirectory |-> TRUE],
       [path |-> << <<120, 46, 116, 101, 115, 116, 46, 106, 115>> >>,         isDirectory |-> FALSE],
       [path |-> << <<46, 103, 105, 116>> >>,              isDirectory |-> TRUE],
       [path |-> << <<97>> >>,                 isDirectory |-> TRUE],
       [path |-> << <<115, 114, 99>>, <<115, 107, 105, 112, 46, 116, 115>> >>,       isDirectory |-> FALSE],
       [path |-> << <<97>>, <<121, 97, 114, 110, 46, 108, 111, 99, 107>> >>,       isDirectory |-> FALSE],
       [path |-> << <<46, 103, 105, 116, 105, 103, 110, 111, 114, 101>> >>,        isDirectory |-> FALSE],
       [path |-> << <<97>>, <<98>> >>,               isDirectory |-> TRUE],
       [path |-> << <<98, 117, 105, 108, 100>> >>,             isDirectory |-> TRUE],
       [path |-> << <<97>>, <<98>>, <<120, 46, 116, 101, 115, 116, 46, 106, 115>> >>,     isDirectory |-> FALSE],
       [path |-> << <<46, 103, 105, 116>>, <<99, 111, 110, 102, 105, 103>> >>,       isDirectory |-> FALSE],
       [path |-> << <<97>>, <<98>>, <<99>> >>,             isDirectory |-> TRUE],
       [path |-> << <<115, 114, 99>>, <<77, 97, 105, 110, 46, 84, 83>> >>,       isDirectory |-> FALSE],
       [path |-> << <<97>>, <<110, 111, 100, 101, 95, 109, 111, 100, 117, 108, 101, 115>> >>,    isDirectory |-> TRUE],
       [path |-> << <<98, 117, 105, 108, 100>>, <<111, 117, 116, 46, 106, 115>> >>,      isDirectory |-> FALSE],
       [path |-> << <<108, 111, 103, 111, 46, 80, 78, 71>> >>,          isDirectory |-> FALSE],
       [path |-> << <<97>>, <<98>>, <<99>>, <<100, 101, 101, 112, 46, 116, 115>> >>,     isDirectory |-> FALSE],
       [path |-> << <<97>>, <<110, 111, 100, 101, 95, 109, 111, 100, 117, 108, 101, 115>>, <<109, 46, 116, 115>> >>, isDirectory |-> FALSE],
       [path |-> << <<115, 114, 99>>, <<109, 97, 105, 110, 46, 116, 115>> >>,       isDirectory |-> FALSE] >>

\* The contents of .gitignore tried, as lists of pattern lines.
GitignoreFiles ==
    { <<>>,
      << <<98, 117, 105, 108, 100, 47>> >>,
      << <<98, 117, 105, 108, 100>> >>,
      << <<33, 46, 103, 105, 116>>, <<33, 110, 111, 100, 101, 95, 109, 111, 100, 117, 108, 101, 115, 47>>, <<33, 121, 97, 114, 110, 46, 108, 111, 99, 107>> >>,
      << <<42, 46, 116, 115>>, <<33, 109, 97, 105, 110, 46, 116, 115>> >>,
      << <<47, 42>>, <<33, 47, 115, 114, 99, 47>> >> }

\* The --include lists tried.
IncludeLists ==
    { <<>>,
      << <<42, 46, 116, 115>> >>,
      << <<115, 114, 99, 47, 42, 46, 116, 115>> >>,
      << <<99, 111, 110, 102, 105, 103>>, <<42, 46, 108, 111, 99, 107>>, <<109, 46, 116, 115>>, <<42, 46, 80, 78, 71>> >>,
      << <<42, 46, 106, 115>>, <<42, 42, 47, 42, 46, 116, 115>> >> }

\* The --exclude lists tried.
ExcludeLists ==
    { <<>>,
      << <<115, 114, 99, 47, 115, 107, 105, 112, 46, 116, 115>> >>,
      << <<42, 46, 116, 101, 115, 116, 46, 106, 115>> >>,
      << <<42, 42, 47, 42, 46, 116, 101, 115, 116, 46, 106, 115>> >> }

\* readdir(dir, { withFileTypes: true })
readdir(root, dir) ==
    SelectSeq(root, LAMBDA e : /\ Len(e.path) = Len(dir) + 1
                               /\ SubSeq(e.path, 1, Len(dir)) = dir)

\* The rules ig holds during a run.
ig == loadIgnorePatterns(gitignore)

\* The frame of the innermost running call, its entries, and the entry its
\* loop is at.
TopFrame   == stack[Len(stack)]
TopEntries == readdir(fsRoot, TopFrame.dir)
TopEntry   == TopEntries[TopFrame.i]

InLoop == tpc = "walk" /\ TopFrame.i <= Len(TopEntries)

\* The stack with the loop of its innermost call moved to the next entry.
Advance == [stack EXCEPT ![Len(stack)].i = @ + 1]

InitFilter ==
    /\ fsRoot = SourceFolder
    /\ gitignore \in GitignoreFiles
    /\ includePatterns \in IncludeLists
    /\ excludePatterns \in ExcludeLists
    /\ sourceOnly \in BOOLEAN
    /\ stack = <<>>
    /\ files = <<>>
    /\ listed = <<>>
    /\ tpc = "start"
    /\ BinIdle /\ ChunkIdle /\ TreeIdle /\ RunIdle

\* getFilesRecursively(resolvedSourceFolder, ig): the outermost call reads
\* the source folder.
StartTraversal ==
    /\ tpc = "start"
    /\ stack' = << [dir |-> <<>>, i |-> 1] >>
    /\ listed' = << <<>> >>
    /\ tpc' = "walk"
    /\ UNCHANGED <<fsRoot, gitignore, includePatterns, excludePatterns,
                   sourceOnly, files, binVars, chunkVars, treeVars, runVars>>

\* if (ig.ignores(relativePath)) continue;
SkipIgnored ==
    /\ InLoop
    /\ ignores(ig, RelativePath(TopEntry.path))
    /\ stack' = Advance
    /\ UNCHANGED <<fsRoot, gitignore, includePatterns, excludePatterns,
                   sourceOnly, files, listed, tpc, binVars, chunkVars, treeVars, runVars>>

\* if (entry.isDirectory()) files = files.concat(await getFilesRecursively(...)):
\* the inner call reads the directory; what it collects is appended to the
\* list in the order it finds it.
EnterDirectory ==
    /\ InLoop
    /\ ~ignores(ig, RelativePath(TopEntry.path))
    /\ TopEntry.isDirectory
    /\ stack' = Append(Advance, [dir |-> TopEntry.path, i |-> 1])
    /\ listed' = Append(listed, TopEntry.path)
    /\ UNCHANGED <<fsRoot, gitignore, includePatterns, excludePatterns,
                   sourceOnly, files, tpc, binVars, chunkVars, treeVars, runVars>>

\* The else branch: source-only, include and exclude decide about a file.
VisitFile ==
    /\ InLoop
    /\ ~ignores(ig, RelativePath(TopEntry.path))
    /\ ~TopEntry.isDirectory
    /\ files' =
         IF /\ PassesSourceOnly(sourceOnly, TopEntry.path[Len(TopEntry.path)])
            /\ IncludeMatch(includePatterns, RelativePath(TopEntry.path))
            /\ ~ExcludeMatch(excludePatterns, RelativePath(TopEntry.path))
         THEN Append(files, TopEntry.path)
         ELSE files
    /\ stack' = Advance
    /\ UNCHANGED <<fsRoot, gitignore, includePatterns, excludePatterns,
                   sourceOnly, listed, tpc, binVars, chunkVars, treeVars, runVars>>

\* return files: the loop of the innermost call is over.
ReturnFiles ==
    /\ tpc = "walk"
    /\ TopFrame.i > Len(TopEntries)
    /\ stack' = SubSeq(stack, 1, Len(stack) - 1)
    /\ tpc' = IF Len(stack) = 1 THEN "done" ELSE "walk"
    /\ UNCHANGED <<fsRoot, gitignore, includePatterns, excludePatterns,
                   sourceOnly, files, listed, binVars, chunkVars, treeVars, runVars>>

NextFilter ==
    \/ StartTraversal
    \/ SkipIgnored
    \/ EnterDirectory
    \/ VisitFile
    \/ ReturnFiles

SpecFilter == InitFilter /\ [][NextFilter]_vars

(***************************************************************************)
(* Claims about the traversal.                                             *)
(***************************************************************************)
\* The entries of the source folder that are not directories.
FileEntries == { e \in Range(fsRoot) : ~e.isDirectory }

Selected(p) == p \in Range(files)

BaseName(p) == p[Len(p)]

HasSeparator(pattern) == 47 \in Range(pattern) \/ 92 \in Range(pattern)

\* The two matching modes: a pattern without a separator is matched against
\* the base name, one with a separator against the whole relative path.
PatternMatches(pattern, p) ==
    IF HasSeparator(pattern)
    THEN MatchOne(p, Split(pattern, 47), 1, 1)
    ELSE SegmentMatches(pattern, BaseName(p))

\* The ignore rules reject p or one of its ancestor directories, each
\* ancestor taken as the directory it is.
RulesReject(p) ==
    \E k \in 1..Len(p) : TestOne(ig, SubSeq(p, 1, k), k < Len(p))

HasSourceExtension(p) ==
    toLowerCase(extname(BaseName(p))) \in sourceCodeExtensions

\* C4: when the traversal has returned, a file is in the list if and only
\* if the ignore rules reject neither it nor an ancestor directory, it has a
\* source extension when source-only is on, no exclude pattern matches it,
\* and the include list is empty or one of its patterns matches it.
C4_SelectedIffAllFiltersPass ==
    tpc = "done" =>
        \A e \in FileEntries :
            Selected(e.path) <=>
                /\ ~RulesReject(e.path)
                /\ sourceOnly => HasSourceExtension(e.path)
                /\ \A k \in 1..Len(excludePatterns) :
                      ~PatternMatches(excludePatterns[k], e.path)
                /\ \/ Len(includePatterns) = 0
                   \/ \E k \in 1..Len(includePatterns) :
                         PatternMatches(includePatterns[k], e.path)

\* The traversal has pruned p: it asked ig about p or an ancestor of p, by
\* the relative path it builds, and the answer was yes.
Pruned(p) ==
    \E k \in 1..Len(p) : ignores(ig, RelativePath(SubSeq(p, 1, k)))

\* The same decision stated with the relations the code consults: ig asked
\* by the relative path of the entry and of each ancestor, minimatch without
\* matchBase for the exclude patterns.
SelectedAsCoded ==
    tpc = "done" =>
        \A e \in FileEntries :
            Selected(e.path) <=>
                /\ ~Pruned(e.path)
                /\ sourceOnly => HasSourceExtension(e.path)
                /\ ~ExcludeMatch(excludePatterns, RelativePath(e.path))
                /\ \/ Len(includePatterns) = 0
                   \/ \E k \in 1..Len(includePatterns) :
                         PatternMatches(includePatterns[k], e.path)

\* C5: for a file that the ignore rules, source-only and the exclude
\* patterns let through, being selected is the same as the include list
\* being empty or holding a pattern that matches the file's base name (a
\* pattern without a separator) or its whole relative path (a pattern with
\* one); and with include *.ts and exclude src/skip.ts, src/main.ts and
\* a/b/c/deep.ts are selected and src/skip.ts is not.
C5_IncludeByBaseNameOrFullPath ==
    tpc = "done" =>
        /\ \A e \in FileEntries :
              ( /\ ~Pruned(e.path)
                /\ PassesSourceOnly(sourceOnly, BaseName(e.path))
                /\ ~ExcludeMatch(excludePatterns, RelativePath(e.path)) )
              => ( Selected(e.path) <=>
                     \/ Len(includePatterns) = 0
                     \/ \E k \in 1..Len(includePatterns) :
                           PatternMatches(includePatterns[k], e.path) )
        /\ ( /\ gitignore = <<>>
             /\ includePatterns = << <<42, 46, 116, 115>> >>
             /\ excludePatterns = << <<115, 114, 99, 47, 115, 107, 105, 112, 46, 116, 115>> >> )
           => ( /\ Selected(<< <<115, 114, 99>>, <<109, 97, 105, 110, 46, 116, 115>> >>)
                /\ Selected(<< <<97>>, <<98>>, <<99>>, <<100, 101, 101, 112, 46, 116, 115>> >>)
                /\ ~Selected(<< <<115, 114, 99>>, <<115, 107, 105, 112, 46, 116, 115>> >>) )

\* The run of the example has returned, and a run with a pattern that has a
\* separator has left out a file whose base name alone would match.
C5_Witness ==
    /\ tpc = "done"
    /\ gitignore = <<>>
    /\ includePatterns = << <<42, 46, 116, 115>> >>
    /\ excludePatterns = << <<115, 114, 99, 47, 115, 107, 105, 112, 46, 116, 115>> >>
    /\ [path |-> << <<97>>, <<98>>, <<99>>, <<100, 101, 101, 112, 46, 116, 115>> >>, isDirectory |-> FALSE] \in FileEntries
    /\ [path |-> << <<115, 114, 99>>, <<115, 107, 105, 112, 46, 116, 115>> >>, isDirectory |-> FALSE] \in FileEntries
    /\ Selected(<< <<97>>, <<98>>, <<99>>, <<100, 101, 101, 112, 46, 116, 115>> >>)
    /\ Selected(<< <<115, 114, 99>>, <<109, 97, 105, 110, 46, 116, 115>> >>)
    /\ ~Selected(<< <<115, 114, 99>>, <<115, 107, 105, 112, 46, 116, 115>> >>)

\* C6: when the traversal has returned, no file is in the list whose base
\* name is matched by an exclude pattern that has no separator.
C6_ExcludeByBaseName ==
    tpc = "done" =>
        \A e \in FileEntries : \A k \in 1..Len(excludePatterns) :
            ( /\ ~HasSeparator(excludePatterns[k])
              /\ SegmentMatches(excludePatterns[k], BaseName(e.path)) )
            => ~Selected(e.path)

\* C7: at no time does the list hold a path with a segment that is one of
\* the static ignore names.
C7_StaticNamesNeverSelected ==
    \A i \in 1..Len(files) : \A s \in 1..Len(files[i]) :
        files[i][s] \notin Range(additionalIgnoredFiles)

\* A run has returned in which .gitignore re-includes .git, the include list
\* names config, and the source folder holds .git/config, which is not in
\* the list, while another file is.
C7_Witness ==
    /\ tpc = "done"
    /\ <<33, 46, 103, 105, 116>> \in Range(gitignore)
    /\ <<99, 111, 110, 102, 105, 103>> \in Range(includePatterns)
    /\ [path |-> << <<46, 103, 105, 116>>, <<99, 111, 110, 102, 105, 103>> >>, isDirectory |-> FALSE] \in FileEntries
    /\ ~Selected(<< <<46, 103, 105, 116>>, <<99, 111, 110, 102, 105, 103>> >>)
    /\ << <<46, 103, 105, 116>> >> \notin Range(listed)
    /\ files # <<>>

\* C8: readdir is never called on a directory that the ignore rules reject
\* (asked about it as a directory, by its path with a trailing "/").
C8_IgnoredDirectoryNeverListed ==
    \A k \in 1..Len(listed) :
        listed[k] # <<>> => ~ignores(ig, RelativePath(listed[k]) \o <<47>>)

(***************************************************************************)
(* Claims about binary files, the tree text and the slices.                *)
(***************************************************************************)
IsBinaryEntry(i) == allFiles[i].isFile /\ isBinaryFile(allFiles[i].bytes)

\* The lines of the tree pieces that stand in the buffers.
TreeLinesInBuffers ==
    UNION { Range(Split(AllPieces[k].s, 10)) :
              k \in { j \in 1..Len(AllPieces) : AllPieces[j].kind = "tree" } }

EndsWith(str, tail) ==
    /\ Len(str) >= Len(tail)
    /\ SubSeq(str, Len(str) - Len(tail) + 1, Len(str)) = tail

\* A line of the tree text is the line of file i: a connector followed by
\* the base name of the file.
NamesFile(line, i) ==
    EndsWith(line, <<9472, 9472, 32>> \o allFiles[i].path[Len(allFiles[i].path)])

\* C11: once the tree step is over, a file classified binary has no piece
\* (slice, continuation header or footer) in any buffer, and no line of the
\* tree text names it.
C11_BinaryFileLeavesNoText ==
    pc # "tree" =>
        \A i \in 1..Len(allFiles) :
            IsBinaryEntry(i) =>
                /\ PiecesOf(i) = {}
                /\ \A line \in TreeLinesInBuffers : ~NamesFile(line, i)

\* Passing over a binary file changes neither the buffers nor the running
\* size nor the continuation state.
BinaryFilePassedOver ==
    [][(pc = "file" /\ fileLoop <= Len(allFiles) /\ IsBinaryEntry(fileLoop))
         => /\ fileLoop' = fileLoop + 1
            /\ UNCHANGED <<outputFilesContent, currentChunkSize, currentFileIndex,
                           isContinuingFile, currentFileName, pc>>]_vars

(***************************************************************************)
(* Specification SpecTree: buildTree and renderTree applied to a list of   *)
(* relative paths of files.                                                *)
(***************************************************************************)
\* The paths tried.  No path is a directory of another, as for the files
\* of one folder.  The last two are the same name in its two Unicode
\* spellings: e-acute precomposed (U+00E9) and as e with U+0301.
\*   b   _z   a/x   a/10   c/e-acute   c/e-acute
TreeCandidatePaths ==
    { <<98>>, <<95, 122>>, <<97, 47, 120>>, <<97, 47, 49, 48>>, <<99, 47, 233>>, <<99, 47, 101, 769>> }

\* The longest list of paths tried.
MaxTreePaths == 3

\* The lists of distinct paths of at most MaxTreePaths entries.
TreePathLists ==
    UNION { { l \in [1..n -> TreeCandidatePaths] :
                \A i, j \in 1..n : i # j => l[i] # l[j] } : n \in 0..MaxTreePaths }

InitTree ==
    /\ treePaths \in TreePathLists
    /\ renderedLines = <<>>
    /\ treePc = "build"
    /\ BinIdle /\ WalkIdle /\ ChunkIdle /\ RunIdle

\* renderTree(buildTree(paths))
RenderTree ==
    /\ treePc = "build"
    /\ renderedLines' = renderTree(buildTree(treePaths), <<>>, TRUE, TRUE)
    /\ treePc' = "rendered"
    /\ UNCHANGED <<treePaths, binVars, walkVars, chunkVars, runVars>>

NextTree == RenderTree

SpecTree == InitTree /\ [][NextTree]_vars

\* The lists that hold the paths of list in another order.
Orderings(list) ==
    { [i \in 1..Len(list) |-> list[f[i]]] : f \in Permutations(1..Len(list)) }

\* C12: the lines rendered for a list of paths are the lines rendered for
\* every other ordering of the same paths.
C12_RenderIndependentOfOrder ==
    treePc = "rendered" =>
        \A other \in Orderings(treePaths) :
            renderTree(buildTree(other), <<>>, TRUE, TRUE) = renderedLines

\* The same for lists that do not hold one name in two spellings.
RenderIndependentOfOrderOfDistinctNames ==
    (treePc = "rendered"
       /\ ~({<<99, 47, 233>>, <<99, 47, 101, 769>>} \subseteq Range(treePaths)))
    => \A other \in Orderings(treePaths) :
          renderTree(buildTree(other), <<>>, TRUE, TRUE) = renderedLines

(***************************************************************************)
(* The process: configuration, chunk size, the write phase and the exit.   *)
(***************************************************************************)
\* String.prototype.trim
RECURSIVE TrimStart(_)
TrimStart(str) ==
    IF Len(str) > 0 /\ str[1] \in WhiteSpace THEN TrimStart(Tail(str)) ELSE str

RECURSIVE TrimEnd(_)
TrimEnd(str) ==
    IF Len(str) > 0 /\ str[Len(str)] \in WhiteSpace
    THEN TrimEnd(SubSeq(str, 1, Len(str) - 1)) ELSE str

trim(str) == TrimEnd(TrimStart(str))

IsDigit(c) == c >= 48 /\ c <= 57

\* parseInt(digits, 10) of a string of decimal digits
RECURSIVE parseInt(_)
parseInt(digits) ==
    IF digits = <<>> THEN 0
    ELSE 10 * parseInt(SubSeq(digits, 1, Len(digits) - 1))
         + (digits[Len(digits)] - 48)

\* The units table of parseSize; 0 stands for a unit that is not in it.
UnitMultiplier(unit) ==
    IF unit = <<>> \/ unit = <<98>> THEN 1
    ELSE IF unit = <<107>> \/ unit = <<107, 98>> THEN 1024
    ELSE IF unit = <<109>> \/ unit = <<109, 98>> THEN 1024 * 1024
    ELSE IF unit = <<103>> \/ unit = <<103, 98>> THEN 1024 * 1024 * 1024
    ELSE 0

\* parseSize(sizeStr): the string, trimmed and lower-cased, has to match
\* /^(\d+)([bkmg]b?)?$/ and the unit has to be in the table; the result is
\* the number of bytes, or the error thrown.
parseSize(sizeStr) ==
    LET str      == toLowerCase(trim(sizeStr))
        nonDigit == { i \in 1..Len(str) : ~IsDigit(str[i]) }
        cut      == IF nonDigit = {} THEN Len(str) + 1
                    ELSE CHOOSE i \in nonDigit : \A j \in nonDigit : i <= j
        digits   == SubSeq(str, 1, cut - 1)
        unit     == SubSeq(str, cut, Len(str))
        unitForm == \/ unit = <<>>
                    \/ /\ Len(unit) \in {1, 2}
                       /\ unit[1] \in {98, 107, 109, 103}
                       /\ Len(unit) = 2 => unit[2] = 98
    IN  IF digits = <<>> \/ ~unitForm
        THEN [error |-> "Invalid size format", bytes |-> 0]
        ELSE IF UnitMultiplier(unit) = 0
        THEN [error |-> "Invalid size unit", bytes |-> 0]
        ELSE [error |-> "", bytes |-> parseInt(digits) * UnitMultiplier(unit)]

\* Number.prototype.toString of a natural number
RECURSIVE toString(_)
toString(n) ==
    IF n < 10 THEN <<48 + n>> ELSE toString(n \div 10) \o <<48 + (n % 10)>>

\* A mutation of padStart: no padding.
padStartNone(str, targetLength, fill) == str

\* String.prototype.padStart with a one-character fill
padStart(str, targetLength, fill) ==
    [i \in 1..(targetLength - Len(str)) |-> fill] \o str

\* path.basename(p, ext): the last segment without the suffix ext (kept when
\* the segment is the suffix itself)
basename(name, ext) ==
    IF Len(ext) > 0 /\ Len(name) > Len(ext)
       /\ SubSeq(name, Len(name) - Len(ext) + 1, Len(name)) = ext
    THEN SubSeq(name, 1, Len(name) - Len(ext))
    ELSE name

\* getOutputFilePath(index) for the output path given by its segments
getOutputFilePath(outputFile, index) ==
    LET name     == outputFile[Len(outputFile)]
        ext      == extname(name)
        baseName == basename(name, ext)
        dirName  == SubSeq(outputFile, 1, Len(outputFile) - 1)
        indexStr == padStart(toString(index), 2, 48)
    IN  Append(dirName, baseName \o <<46>> \o indexStr \o ext)

(***************************************************************************)
(* Specification SpecRun: one run of the program, from the loading of      *)
(* txtzip.json to the exit of the process (--check-update not given).      *)
(* allFiles stands for the files the traversal selects; the directories    *)
(* that hold them are listed one by one.  Reading the configuration, a     *)
(* directory or a file, and writing an output file, can fail.              *)
(***************************************************************************)
FileAt(path) == CHOOSE f \in CandidateFiles : f.path = path

\* The selections tried: nothing; a; a and the binary z; d/b.md and a.
RunFileLists ==
    { <<>>,
      << FileAt(<< <<97>> >>) >>,
      << FileAt(<< <<97>> >>), FileAt(<< <<122>> >>) >>,
      << FileAt(<< <<100>>, <<98, 46, 109, 100>> >>), FileAt(<< <<97>> >>) >> }

\* The --chunkSize strings tried: not given, "5", " 30B", "1k", and the
\* malformed "5x" and "1bb".
SizeStrings == { <<>>, <<53>>, <<32, 51, 48, 66>>, <<49, 107>>, <<53, 120>>, <<49, 98, 98>> }

\* The output paths tried: out.md and o/txtzip (no extension).
OutputFiles == { << <<111, 117, 116, 46, 109, 100>> >>, << <<111>>, <<116, 120, 116, 122, 105, 112>> >> }

\* The content of a file that is at an output path before the run.
OldBytes == <<111, 108, 100>>

\* What is at the output paths before the run: nothing, the output file
\* itself, or the file of the second part.
PreRunDisks(outputFile) ==
    { [p \in existing |-> OldBytes] :
        existing \in { {},
                       {outputFile},
                       {IF outputFile = << <<111, 117, 116, 46, 109, 100>> >> THEN << <<111, 117, 116, 46, 48, 50, 46, 109, 100>> >> ELSE << <<111>>, <<116, 120, 116, 122, 105, 112, 46, 48, 50>> >>} } }

runInputs == <<configFile, chunkSizeStr, overwriteOutput, resolvedOutputFile,
               preRunDisk>>
walkRest  == <<fsRoot, gitignore, includePatterns, excludePatterns, sourceOnly,
               stack, files, tpc>>
chunkRest == <<outputFilesContent, currentChunkSize, currentFileIndex,
               isContinuingFile, currentFileName, fileLoop, totalFileContent,
               contentPointer>>

InitRun ==
    /\ configFile \in {"absent", "valid", "unreadable", "unparseable"}
    /\ chunkSizeStr \in SizeStrings
    /\ overwriteOutput \in BOOLEAN
    /\ resolvedOutputFile \in OutputFiles
    /\ preRunDisk \in PreRunDisks(resolvedOutputFile)
    /\ disk = preRunDisk
    /\ written = <<>> /\ writeIndex = 0
    /\ stderr = <<>> /\ stdout = <<>>
    /\ exitCode = -1
    /\ rpc = "config"
    /\ allFiles \in RunFileLists
    /\ prefixTree \in BOOLEAN
    /\ stripEmptyLines = FALSE
    /\ maxChunkSize = 0
    /\ outputFilesContent = <<>> /\ currentChunkSize = 0 /\ currentFileIndex = 0
    /\ isContinuingFile = FALSE /\ currentFileName = <<>> /\ fileLoop = 0
    /\ totalFileContent = <<>> /\ contentPointer = 0 /\ pc = "idle"
    /\ BinIdle /\ WalkIdle /\ TreeIdle

Message(kind, during, path) == [kind |-> kind, during |-> during, path |-> path]

\* loadConfigFromFile: a file that cannot be read or parsed is reported and
\* {} is returned.
LoadConfig ==
    /\ rpc = "config"
    /\ stderr' = IF configFile \in {"unreadable", "unparseable"}
                 THEN Append(stderr, Message("config", "loadConfigFromFile", <<>>))
                 ELSE stderr
    /\ rpc' = "size"
    /\ UNCHANGED <<runInputs, disk, written, writeIndex, stdout, exitCode,
                   binVars, walkVars, chunkVars, treeVars>>

\* if (chunkSizeStr) { try { maxChunkSize = parseSize(chunkSizeStr) }
\*                     catch { console.error(...); process.exit(1) } }
ParseChunkSize ==
    /\ rpc = "size"
    /\ IF chunkSizeStr = <<>>
       THEN /\ rpc' = "traverse"
            /\ UNCHANGED <<maxChunkSize, stderr, exitCode>>
       ELSE IF parseSize(chunkSizeStr).error # ""
       THEN /\ stderr' = Append(stderr, Message("size", "parseSize", <<>>))
            /\ exitCode' = 1
            /\ rpc' = "exited"
            /\ UNCHANGED maxChunkSize
       ELSE /\ maxChunkSize' = parseSize(chunkSizeStr).bytes
            /\ rpc' = "traverse"
            /\ UNCHANGED <<stderr, exitCode>>
    /\ UNCHANGED <<runInputs, disk, written, writeIndex, stdout,
                   allFiles, prefixTree, stripEmptyLines, chunkRest, pc,
                   binVars, walkVars, treeVars>>

\* The directories getFilesRecursively has to read to find allFiles.
DirsToList ==
    {<<>>} \cup UNION { { SubSeq(allFiles[i].path, 1, k) :
                            k \in 1..(Len(allFiles[i].path) - 1) } :
                        i \in 1..Len(allFiles) }

\* The handler an exception raised at a position of createTextArchive ends
\* in, were the loop over the files to catch its own errors.
HandlerOfLoop(position) == IF position = "file" THEN "loop" ELSE "catch"

\* The handler an exception raised at a position of createTextArchive ends
\* in: the one try block encloses the whole function.
HandlerOf(position) == "catch"

\* readdir succeeds on a directory whose parent has been read.
ListDirectory ==
    /\ rpc = "traverse"
    /\ \E d \in DirsToList \ Range(listed) :
          /\ d = <<>> \/ SubSeq(d, 1, Len(d) - 1) \in Range(listed)
          /\ listed' = Append(listed, d)
    /\ UNCHANGED <<runVars, walkRest, chunkVars, binVars, treeVars>>

\* readdir (or the read of .gitignore) throws: the catch clause reports it
\* and createTextArchive returns.
TraversalFails ==
    /\ rpc = "traverse"
    /\ DirsToList \ Range(listed) # {}
    /\ stderr' = Append(stderr, Message("exception", "readdir", <<>>))
    /\ rpc' = "returned"
    /\ UNCHANGED <<runInputs, disk, written, writeIndex, stdout, exitCode,
                   binVars, walkVars, chunkVars, treeVars>>

\* The traversal has returned: let outputFilesContent = [''], ...
StartAssembly ==
    /\ rpc = "traverse"
    /\ DirsToList \subseteq Range(listed)
    /\ outputFilesContent' = << <<>> >>
    /\ currentChunkSize' = 0
    /\ currentFileIndex' = 0
    /\ isContinuingFile' = FALSE
    /\ currentFileName' = <<>>
    /\ fileLoop' = 1
    /\ pc' = "tree"
    /\ rpc' = "assemble"
    /\ UNCHANGED <<runInputs, disk, written, writeIndex, stderr, stdout, exitCode,
                   allFiles, maxChunkSize, prefixTree, stripEmptyLines,
                   totalFileContent, contentPointer, binVars, walkVars, treeVars>>

\* stat(file) or readFile(file) throws.
ReadFails ==
    /\ rpc = "assemble"
    /\ pc = "file"
    /\ fileLoop <= Len(allFiles)
    /\ \E during \in {"stat", "readFile"} :
          stderr' = Append(stderr, Message("exception", during, allFiles[fileLoop].path))
    /\ IF HandlerOf("file") = "catch"
       THEN /\ pc' = "caught"
            /\ rpc' = "returned"
            /\ UNCHANGED fileLoop
       ELSE /\ fileLoop' = fileLoop + 1
            /\ UNCHANGED <<pc, rpc>>
    /\ UNCHANGED <<runInputs, disk, written, writeIndex, stdout, exitCode,
                   allFiles, maxChunkSize, prefixTree, stripEmptyLines,
                   outputFilesContent, currentChunkSize, currentFileIndex,
                   isContinuingFile, currentFileName, totalFileContent,
                   contentPointer, binVars, walkVars, treeVars>>

\* The path buffer i (0-based) is written to.
OutputFilePath(i) ==
    IF Len(outputFilesContent) > 1
    THEN getOutputFilePath(resolvedOutputFile, i + 1)
    ELSE resolvedOutputFile

\* A mutation of Collides: an existing file never stops the write phase.
CollidesNever(overwrite, path, onDisk) == FALSE

\* if (!overwriteOutput && existsSync(outputFilePath))
Collides(overwrite, path, onDisk) == ~overwrite /\ path \in DOMAIN onDisk

InWriteLoop ==
    rpc = "assemble" /\ pc = "done" /\ writeIndex < Len(outputFilesContent)

\* The target exists and may not be overwritten: the collision is reported
\* and createTextArchive returns.
Collision ==
    /\ InWriteLoop
    /\ Collides(overwriteOutput, OutputFilePath(writeIndex), disk)
    /\ stderr' = Append(stderr, Message("collision", "existsSync",
                                        OutputFilePath(writeIndex)))
    /\ rpc' = "returned"
    /\ UNCHANGED <<runInputs, disk, written, writeIndex, stdout, exitCode,
                   binVars, walkVars, chunkVars, treeVars>>

\* await writeFile(outputFilePath, outputFilesContent[i], 'utf8')
WriteBuffer ==
    /\ InWriteLoop
    /\ ~Collides(overwriteOutput, OutputFilePath(writeIndex), disk)
    /\ disk' = [p \in DOMAIN disk \cup {OutputFilePath(writeIndex)} |->
                   IF p = OutputFilePath(writeIndex)
                   THEN BufferString(outputFilesContent[writeIndex + 1])
                   ELSE disk[p]]
    /\ written' = Append(written, OutputFilePath(writeIndex))
    /\ writeIndex' = writeIndex + 1
    /\ UNCHANGED <<runInputs, stderr, stdout, exitCode, rpc,
                   binVars, walkVars, chunkVars, treeVars>>

\* writeFile throws: nothing is written at the path.
WriteFails ==
    /\ InWriteLoop
    /\ ~Collides(overwriteOutput, OutputFilePath(writeIndex), disk)
    /\ stderr' = Append(stderr, Message("exception", "writeFile",
                                        OutputFilePath(writeIndex)))
    /\ rpc' = "returned"
    /\ UNCHANGED <<runInputs, disk, written, writeIndex, stdout, exitCode,
                   binVars, walkVars, chunkVars, treeVars>>

\* The write loop is over: the success line is printed.
WriteDone ==
    /\ rpc = "assemble" /\ pc = "done"
    /\ writeIndex = Len(outputFilesContent)
    /\ stdout' = Append(stdout, Message("success", "createTextArchive", <<>>))
    /\ rpc' = "returned"
    /\ UNCHANGED <<runInputs, disk, written, writeIndex, stderr, exitCode,
                   binVars, walkVars, chunkVars, treeVars>>

\* createTextArchive() has returned and nothing is left to do: the process
\* ends with the exit status nothing has set.
ProcessExit ==
    /\ rpc = "returned"
    /\ exitCode' = 0
    /\ rpc' = "exited"
    /\ UNCHANGED <<runInputs, disk, written, writeIndex, stderr, stdout,
                   binVars, walkVars, chunkVars, treeVars>>

NextRun ==
    \/ LoadConfig
    \/ ParseChunkSize
    \/ ListDirectory
    \/ TraversalFails
    \/ StartAssembly
    \/ TreePrefix
    \/ NextFile
    \/ ReadFails
    \/ ChunkIteration
    \/ FileEmitted
    \/ AssemblyDone
    \/ Collision
    \/ WriteBuffer
    \/ WriteFails
    \/ WriteDone
    \/ ProcessExit

SpecRun == InitRun /\ [][NextRun]_vars

(***************************************************************************)
(* Claims about the write phase, errors and the exit status.               *)
(***************************************************************************)
\* i written with two digits (i < 100)
TwoDigits(i) == <<48 + (i \div 10), 48 + (i % 10)>>

\* The numbered path of part i for the two output paths of the model:
\* out.NN.md and o/txtzip.NN
NumberedPath(i) ==
    IF resolvedOutputFile = << <<111, 117, 116, 46, 109, 100>> >>
    THEN << <<111, 117, 116, 46>> \o TwoDigits(i) \o <<46, 109, 100>> >>
    ELSE << <<111>>, <<116, 120, 116, 122, 105, 112, 46>> \o TwoDigits(i) >>

\* The paths the write phase is to write, in order, for the buffers it has.
Targets ==
    IF Len(outputFilesContent) = 1 THEN <<resolvedOutputFile>>
    ELSE [i \in 1..Len(outputFilesContent) |-> NumberedPath(i)]

\* The write phase has been entered.
WritePhase == pc = "done" /\ rpc \in {"assemble", "returned", "exited"}

Succeeded == rpc = "exited" /\ stdout # <<>>

\* C13: in the write phase the paths written so far are the first targets,
\* in order, where the target of the only buffer is the output path and the
\* target of buffer i of several is base.NN.ext; after a run that succeeded
\* every target is written, nothing else is, and with several buffers the
\* output path itself is as it was before the run.
C13_NumberedOutputPaths ==
    WritePhase =>
        /\ Len(written) <= Len(Targets)
        /\ written = SubSeq(Targets, 1, Len(written))
        /\ DOMAIN disk = DOMAIN preRunDisk \cup Range(written)
        /\ Succeeded => written = Targets
        /\ (Len(outputFilesContent) > 1 /\ resolvedOutputFile \in DOMAIN preRunDisk)
              => disk[resolvedOutputFile] = preRunDisk[resolvedOutputFile]
        /\ (Succeeded /\ Len(outputFilesContent) = 3
                /\ resolvedOutputFile = << <<111, 117, 116, 46, 109, 100>> >>)
              => written = << << <<111, 117, 116, 46, 48, 49, 46, 109, 100>> >>, << <<111, 117, 116, 46, 48, 50, 46, 109, 100>> >>, << <<111, 117, 116, 46, 48, 51, 46, 109, 100>> >> >>

\* A run with output path out.md has succeeded with three buffers.
C13_Witness ==
    /\ Succeeded
    /\ resolvedOutputFile = << <<111, 117, 116, 46, 109, 100>> >>
    /\ Len(outputFilesContent) = 3
    /\ written = << << <<111, 117, 116, 46, 48, 49, 46, 109, 100>> >>, << <<111, 117, 116, 46, 48, 50, 46, 109, 100>> >>, << <<111, 117, 116, 46, 48, 51, 46, 109, 100>> >> >>

\* The first target that is on disk before the run, 0 when there is none.
FirstExisting ==
    LET hits == { k \in 1..Len(Targets) : Targets[k] \in DOMAIN preRunDisk }
    IN  IF hits = {} THEN 0 ELSE CHOOSE k \in hits : \A j \in hits : k <= j

EndedInError ==
    \E k \in 1..Len(stderr) : stderr[k].kind \in {"size", "collision", "exception"}

\* C15: a process that has ended after an error has a non-zero exit status,
\* and one that has ended with status 0 has written every buffer and printed
\* the success line.
C15_ErrorsExitNonZero ==
    rpc = "exited" =>
        /\ EndedInError => (stderr # <<>> /\ exitCode # 0)
        /\ exitCode = 0 => (stdout # <<>> /\ pc = "done"
                               /\ Len(written) = Len(outputFilesContent))

ConfigurationError ==
    \/ configFile \in {"unreadable", "unparseable"}
    \/ (chunkSizeStr # <<>> /\ parseSize(chunkSizeStr).error # "")

\* C16: in a run with a configuration error (txtzip.json cannot be read or
\* parsed, or the chunk size is malformed) no directory is ever listed and
\* no output file is ever written, and once the error is met it is reported.
C16_ConfigurationErrorStopsRun ==
    ConfigurationError =>
        /\ listed = <<>>
        /\ written = <<>> /\ disk = preRunDisk
        /\ rpc \in {"config", "size", "exited"}
        /\ rpc = "exited" => (stderr # <<>> /\ exitCode # 0)

\* The half of it that is about the chunk size.
MalformedSizeStopsRun ==
    (chunkSizeStr # <<>> /\ parseSize(chunkSizeStr).error # "") =>
        /\ listed = <<>>
        /\ written = <<>> /\ disk = preRunDisk
        /\ rpc \in {"config", "size", "exited"}
        /\ rpc = "exited" => (\E k \in 1..Len(stderr) : stderr[k].kind = "size")
                             /\ exitCode = 1

\* The exceptions reported that came from listing a directory or from stat
\* or readFile of a file.
ReadErrors ==
    { k \in 1..Len(stderr) : /\ stderr[k].kind = "exception"
                             /\ stderr[k].during \in {"readdir", "stat", "readFile"} }

\* C17: after a failed readdir, stat or readFile the run is over
\* (createTextArchive has returned): the error is the last thing reported,
\* the loop over the files stands at the file that failed, no file is
\* written and the disk is as before the run; and whenever a file has been
\* written, every file had been read and assembled.
C17_ReadErrorAbortsRun ==
    /\ ReadErrors # {} =>
          /\ rpc \in {"returned", "exited"}
          /\ ReadErrors = {Len(stderr)}
          /\ stderr[Len(stderr)].during \in {"stat", "readFile"}
                => /\ pc = "caught"
                   /\ fileLoop <= Len(allFiles)
                   /\ allFiles[fileLoop].path = stderr[Len(stderr)].path
          /\ written = <<>> /\ disk = preRunDisk /\ stdout = <<>>
    /\ written # <<>> => (pc = "done" /\ fileLoop = Len(allFiles) + 1)

\* A run has ended in which the first file was emitted and reading the second
\* failed.
C17_Witness ==
    /\ rpc = "exited"
    /\ ReadErrors # {}
    /\ stderr[Len(stderr)].during = "readFile"
    /\ Len(allFiles) = 2 /\ fileLoop = 2
    /\ \E k \in 1..Len(AllPieces) : AllPieces[k].file = 1
    /\ written = <<>>

(***************************************************************************)
(* Termination of the chunk loop.                                          *)
(***************************************************************************)
\* The while loop is about to run an iteration.
AtIteration == pc = "chunk" /\ contentPointer < Len(totalFileContent)

\* An iteration that finds the chunk empty, the file already continued under
\* its own name, and no prefix of the remaining content that fits: it appends
\* the continuation header and footer, closes the chunk, and leaves
\* contentPointer, currentChunkSize, isContinuingFile and currentFileName as
\* it found them, so the next iteration is the same one.
Repeating ==
    /\ AtIteration
    /\ SliceLength(totalFileContent, contentPointer, maxChunkSize, currentChunkSize) = 0
    /\ currentChunkSize = 0
    /\ isContinuingFile
    /\ currentFileName = RelativePath(allFiles[fileLoop].path)

\* Once there the loop stays there: the iteration of a Repeating state ends
\* in a Repeating state, whose loop condition holds again.
RepeatingIsKept == [][(Repeating /\ ChunkIteration) => Repeating']_vars

\* The model cuts a run off at MaxBuffers buffers only inside such a loop:
\* every other run comes to its end below that number.
OnlyARepeatingLoopIsCutOff ==
    (AtIteration /\ Len(outputFilesContent) >= MaxBuffers) => Repeating

\* When TreePrefix, NextFile and ChunkIteration can be taken (ENABLED of the
\* three actions, written out).
TreePrefixEnabled     == pc = "tree"
NextFileEnabled       == pc = "file" /\ fileLoop <= Len(allFiles)
ChunkIterationEnabled == AtIteration /\ Len(outputFilesContent) < MaxBuffers

\* The assembly with the program running on: a step that can be taken is
\* taken.  For TreePrefix, NextFile and ChunkIteration this is weak fairness,
\* WF_vars(A) as []<>~ENABLED <<A>>_vars \/ []<><<A>>_vars, with the enabling
\* condition in the written-out form.
SpecChunkLive ==
    /\ SpecChunk
    /\ WF_vars(FileEmitted) /\ WF_vars(AssemblyDone)
    /\ ([]<>~TreePrefixEnabled \/ []<><<TreePrefix>>_vars)
    /\ ([]<>~NextFileEnabled \/ []<><<NextFile>>_vars)
    /\ ([]<>~ChunkIterationEnabled \/ []<><<ChunkIteration>>_vars)

\* C18: for every list of files, every bound B >= 1 (also below the width of
\* a character or the size of the tree text), tree prefix on or off, the
\* chunk loop terminates: every file's pointer reaches the end of its content
\* and the assembly ends after finitely many buffers.
C18_ChunkLoopTerminates == <>(pc = "done")

(***************************************************************************)
(* The tree prefix.                                                        *)
(***************************************************************************)
\* The tree text of the run, and whether it is larger than the space of the
\* still empty buffer 0 under an active bound.
TreeText == TreeString(allFiles)

TreeLargerThanSpace == maxChunkSize > 0 /\ byteLength(TreeText) > maxChunkSize

\* The tree step is over.
TreeStepDone == pc \in {"file", "chunk", "done"}

\* C19: with the tree prefix on, the tree text lies whole in buffer 0, ahead
\* of all file content, and nowhere else; when a bound is active and the tree
\* text is larger than the space left in buffer 0, buffer 0 is exactly the
\* tree text, a new buffer follows it, and the current buffer index has moved
\* on to that new buffer (it is the empty buffer 1 when the tree step ends).
C19_TreeWholeInFirstBuffer ==
    (prefixTree /\ TreeStepDone) =>
        /\ outputFilesContent[1] # <<>>
        /\ outputFilesContent[1][1] = TreePiece(TreeText)
        /\ \A i \in 1..Len(outputFilesContent) :
              \A k \in 1..Len(outputFilesContent[i]) :
                  outputFilesContent[i][k].kind = "tree" => (i = 1 /\ k = 1)
        /\ TreeLargerThanSpace =>
              /\ outputFilesContent[1] = <<TreePiece(TreeText)>>
              /\ Len(outputFilesContent) >= 2
              /\ currentFileIndex >= 1
              /\ (pc = "file" /\ fileLoop = 1) =>
                    /\ outputFilesContent = << <<TreePiece(TreeText)>>, <<>> >>
                    /\ currentFileIndex = 1

\* A bounded run whose tree text was larger than the bound has ended with
\* the content of two files in the buffers behind the tree's.
C19_Witness ==
    /\ pc = "done" /\ prefixTree /\ TreeLargerThanSpace
    /\ maxChunkSize = 26
    /\ Len(allFiles) = 2 /\ IsTextFile(1) /\ IsTextFile(2)
    /\ outputFilesContent[1] = <<TreePiece(TreeText)>>
    /\ \E i \in 2..Len(outputFilesContent) :
          \E k \in 1..Len(outputFilesContent[i]) :
              outputFilesContent[i][k].kind = "text" /\ outputFilesContent[i][k].file = 2

(***************************************************************************)
(* The slices of a file's content.                                         *)
(***************************************************************************)
\* Position p of str (p code units in front of it) lies between the two
\* code units of one character.
InsideCharacter(str, p) ==
    /\ p > 0 /\ p < Len(str)
    /\ IsHighSurrogate(str[p]) /\ IsLowSurrogate(str[p + 1])

\* C20: no slice boundary falls inside a character, characters of 4 UTF-8
\* bytes (two code units) included: the slices are prefixes, in whole
\* characters, of the content that remains.
C20_SlicesOfWholeCharacters ==
    pc = "chunk" => ~InsideCharacter(totalFileContent, contentPointer)

(***************************************************************************)
(* The continuation markers.                                               *)
(***************************************************************************)
\* The last piece of buffer i (buffer i is not empty).
LastPiece(i) == outputFilesContent[i][Len(outputFilesContent[i])]

\* Where in the buffers the pieces of a kind are: <<buffer, position>>.
PositionsOf(buffers, kind) ==
    UNION { { <<i, k>> : k \in { m \in 1..Len(buffers[i]) : buffers[i][m].kind = kind } } :
              i \in 1..Len(buffers) }

\* The continuation headers and footers in the buffers.
Headers == PositionsOf(outputFilesContent, "header")
Footers == PositionsOf(outputFilesContent, "footer")

\* No piece of file f is in the buffers yet.
NothingEmittedOf(f) ==
    \A i \in 1..Len(outputFilesContent) :
        \A k \in 1..Len(outputFilesContent[i]) : outputFilesContent[i][k].file # f

\* Buffer i closes with a footer of a file, and what follows it: a header
\* naming that file opens buffer i + 1, or buffer i + 1 is the current
\* buffer, still empty, and the loop is set to put that header there next.
FooterIsFollowed(i) ==
    LET f == LastPiece(i).file
    IN  /\ i < Len(outputFilesContent)
        /\ IF outputFilesContent[i + 1] # <<>>
           THEN outputFilesContent[i + 1][1] =
                    HeaderPiece(f, RelativePath(allFiles[f].path))
           ELSE /\ i + 1 = Len(outputFilesContent)
                /\ pc = "chunk" /\ fileLoop = f
                /\ contentPointer < Len(totalFileContent)
                /\ isContinuingFile
                /\ currentFileName = RelativePath(allFiles[f].path)

\* The markers in the buffers are paired and in order.
MarkersPaired ==
    /\ \A i \in 1..Len(outputFilesContent) :
          \A k \in 1..Len(outputFilesContent[i]) :
              LET p == outputFilesContent[i][k]
              IN  /\ p.kind = "footer" =>
                        k = Len(outputFilesContent[i]) /\ FooterIsFollowed(i)
                  /\ p.kind = "header" =>
                        /\ k = 1 /\ i > 1
                        /\ outputFilesContent[i - 1] # <<>>
                        /\ LastPiece(i - 1) = FooterPiece(p.file)
                        /\ p.s = RelativePath(allFiles[p.file].path)
                        /\ Len(outputFilesContent[i]) > 1 =>
                              outputFilesContent[i][2].file = p.file
    /\ Cardinality(Footers) - Cardinality(Headers) =
           (IF isContinuingFile THEN 1 ELSE 0)
    /\ isContinuingFile => pc = "chunk" /\ contentPointer < Len(totalFileContent)
    /\ (pc = "chunk" /\ NothingEmittedOf(fileLoop)) => ~isContinuingFile

\* What one iteration (the step taken at AtIteration) does about the footer:
\* it appends one, to the buffer that was current, exactly when content of
\* the file remains after the slice, and it closes that buffer in the same
\* step.
FooterIffContentRemains ==
    LET sealed == outputFilesContent'[currentFileIndex + 1]
        footer == sealed # <<>> /\ sealed[Len(sealed)] = FooterPiece(fileLoop)
                    /\ Cardinality(Footers') = Cardinality(Footers) + 1
    IN  /\ (contentPointer' < Len(totalFileContent)) <=> footer
        /\ footer => /\ currentFileIndex' = currentFileIndex + 1
                     /\ outputFilesContent'[currentFileIndex' + 1] = <<>>
        /\ ~footer => Footers' = Footers

\* C21: the continuation markers are paired and ordered: a footer is appended
\* exactly when content of the file remains after the slice, the buffer is
\* closed in that step, and the next thing appended is a header naming the
\* same file at the start of the next buffer; there are as many headers as
\* footers, and the continuation flag is false when the emission of a file
\* starts or ends, so a header never precedes content of another file.
C21_MarkersPairedAndOrdered ==
    []MarkersPaired /\ [][AtIteration => FooterIffContentRemains]_vars

\* A run has ended in which both of two files were continued over several
\* buffers.
C21_Witness ==
    /\ pc = "done" /\ Len(allFiles) = 2 /\ maxChunkSize = 26
    /\ \E q \in Footers : outputFilesContent[q[1]][q[2]].file = 1
    /\ \E q \in Headers : outputFilesContent[q[1]][q[2]].file = 2
    /\ Cardinality(Headers) = Cardinality(Footers)
    /\ Cardinality(Headers) >= 3

(***************************************************************************)
(* The life of a buffer.                                                   *)
(***************************************************************************)
\* Sequence s is a prefix of sequence t.
IsPrefix(s, t) == Len(s) <= Len(t) /\ SubSeq(t, 1, Len(s)) = s

\* The assembly is under way or over.
Assembling == pc \in {"tree", "file", "chunk", "done"}

\* The current buffer is the last of the list.
CurrentIsLast == Assembling => currentFileIndex + 1 = Len(outputFilesContent)

\* What a step does to the buffers: none is dropped, those below the current
\* one are as they were, the current one is as it was or longer.
BuffersOnlyGrow ==
    /\ Len(outputFilesContent') >= Len(outputFilesContent)
    /\ \A i \in 1..Len(outputFilesContent) :
          IF i < currentFileIndex + 1
          THEN outputFilesContent'[i] = outputFilesContent[i]
          ELSE IsPrefix(BufferString(outputFilesContent[i]),
                        BufferString(outputFilesContent'[i]))

\* C22: at every step of the assembly the current buffer index is the last
\* index of the buffer list; a buffer at a lower index never changes again,
\* and the current buffer changes only by appending (what it held stays a
\* prefix of it).
C22_BuffersAppendOnly ==
    []CurrentIsLast /\ [][Assembling => BuffersOnlyGrow]_vars

\* A bounded run with a tree text larger than the bound has ended with more
\* than three buffers, the last of them the current one.
C22_Witness ==
    /\ pc = "done" /\ prefixTree /\ TreeLargerThanSpace
    /\ Len(outputFilesContent) > 3
    /\ currentFileIndex = Len(outputFilesContent) - 1
    /\ \A i \in 1..3 : outputFilesContent[i] # <<>>

(***************************************************************************)
(* The running size of the current buffer.                                 *)
(***************************************************************************)
\* After the tree step, and so at the start of every iteration of the chunk
\* loop, currentChunkSize is the byte length of the current buffer; the
\* space that remains under a bound is not negative; the pointer lies
\* within the content.
SizeIsCurrentBufferBytes ==
    pc \in {"file", "chunk"} =>
        /\ currentChunkSize = BufferBytes(currentFileIndex + 1)
        /\ maxChunkSize > 0 =>
              RemainingChunkSpace(maxChunkSize, currentChunkSize) >= 0
        /\ pc = "chunk" =>
              /\ contentPointer >= 0
              /\ contentPointer <= Len(totalFileContent)
              /\ SliceLength(totalFileContent, contentPointer,
                             maxChunkSize, currentChunkSize) >= 0

\* C23: at the start of every iteration of the chunk loop (after the tree
\* step as well) currentChunkSize equals the UTF-8 byte length of the
\* current buffer, so the remaining space is never negative, every slice
\* length is >= 0, and the content pointer never decreases and stays within
\* 0..length of the content.
C23_SizeTracksCurrentBuffer ==
    /\ []SizeIsCurrentBufferBytes
    /\ [][ChunkIteration => contentPointer' >= contentPointer]_vars

(***************************************************************************)
(* Empty output files.                                                     *)
(***************************************************************************)
\* The buffers that hold content, and whether anything was emitted.
BuffersWithContent ==
    { i \in 1..Len(outputFilesContent) : BufferString(outputFilesContent[i]) # <<>> }

\* C24: with a bound B > 0, when at least one byte was emitted no output file
\* is written with empty content: the last buffer is not an empty one left
\* over from closing its predecessor, and the number of files written (and
\* with it the choice between the output path and the numbered paths) counts
\* only buffers that hold content.
C24_NoEmptyOutputFile ==
    (WritePhase /\ maxChunkSize > 0 /\ BuffersWithContent # {}) =>
        /\ Len(outputFilesContent) \in BuffersWithContent
        /\ \A k \in 1..Len(written) : disk[written[k]] # <<>>
        /\ Succeeded => Len(written) = Cardinality(BuffersWithContent)

=============================================================================
